---- MODULE Spec2Model ----
(***************************************************************************)
(* Odoo MCP worker: fetch, which resolves the props of a request from its  *)
(* headers or the worker's settings and routes it (src/src/index.ts); the  *)
(* JSON-RPC client (src/src/odooClient.ts); and the agent that builds      *)
(* clients from the props, registers the tools its allow-list admits and   *)
(* runs tool and resource handlers (src/src/mcp.ts).                       *)
(*                                                                         *)
(* Every remote round trip is a suspend point: a handler runs from one     *)
(* await of fetch() to the next as one step, and the responses of the      *)
(* envelopes in flight arrive in any order.                                *)
(***************************************************************************)
EXTENDS Integers, Sequences, FiniteSets, TLC

VARIABLES
    requests,   \* every request fetch has taken, with the settings it ran
                \* under, and what became of it
    agents,     \* one entry per request served: its props and its this.odoo
    clients,    \* every OdooClient constructed: its cfg and its uid
    uidWrites,  \* per client, how many times login() has assigned this.uid
    handlers,   \* tool and resource handler invocations, each with its
                \* executeKw calls and the envelopes every call has POSTed
    rpc,        \* one jsonRpc response under examination (RpcSpec)
    sheet,      \* the rows of the Google sheet the sheet tools work on
    sheetTools  \* invocations of the sheet tools, each with its position

vars == <<requests, agents, clients, uidWrites, handlers, rpc, sheet, sheetTools>>

(***************************************************************************)
(* Bounds                                                                  *)
(***************************************************************************)
MaxAgents == 2
MaxHandlers == 2
MaxLines == 1

(***************************************************************************)
(* JavaScript values                                                       *)
(***************************************************************************)
Undefined == [type |-> "undefined"]
Null == [type |-> "null"]
JsFalse == [type |-> "boolean", b |-> FALSE]
Num(n) == [type |-> "number", n |-> n]
Str(s) == [type |-> "string", s |-> s]
Arr(items) == [type |-> "array", items |-> items]
Obj(fields) == [type |-> "object", fields |-> fields]

\* v != null  (loose inequality: false for null and undefined only)
NotNullish(v) == v.type \notin {"null", "undefined"}

\* truthiness of a value used as a condition
Truthy(v) ==
    CASE v.type \in {"undefined", "null"} -> FALSE
      [] v.type = "boolean" -> v.b
      [] v.type = "number" -> v.n # 0
      [] v.type = "string" -> v.s # ""
      [] OTHER -> TRUE

\* const [x] = v : the first element, undefined for an empty array
IsIterable(v) == v.type \in {"array", "string"}
FirstOf(v) ==
    IF v.type = "array" /\ Len(v.items) > 0 THEN v.items[1] ELSE Undefined

\* v.name, undefined when v is not an object or has no such field
Field(v, name) ==
    IF v.type = "object" /\ name \in DOMAIN v.fields THEN v.fields[name]
    ELSE Undefined

(***************************************************************************)
(* OdooClient.jsonRpc: what it makes of a transport response               *)
(***************************************************************************)
DefaultTimeout == 60000
GenericRpcMessage == "Odoo RPC error"

Throw(e) == [kind |-> "throw", error |-> e]
Return(v) == [kind |-> "return", value |-> v]
HttpError(status) == [name |-> "Error", http |-> status]
RpcError(message) == [name |-> "Error", message |-> message]
TypeError == [name |-> "TypeError"]

\* data.error.data?.message ?? "Odoo RPC error"
RpcErrorMessage(err) ==
    LET data == Field(err, "data")
        msg == IF NotNullish(data) THEN Field(data, "message") ELSE Undefined
    IN IF NotNullish(msg) THEN msg ELSE Str(GenericRpcMessage)

\* mutants of JsonRpcOutcome: the status is not examined; the error member is
\* examined before the status; the error member is not examined
JsonRpcOutcomeNoStatusCheck(resp) ==
    IF Truthy(resp.error) THEN Throw(RpcError(RpcErrorMessage(resp.error)))
    ELSE Return(resp.result)

JsonRpcOutcomeErrorFirst(resp) ==
    IF Truthy(resp.error) THEN Throw(RpcError(RpcErrorMessage(resp.error)))
    ELSE IF ~resp.ok THEN Throw(HttpError(resp.status))
    ELSE Return(resp.result)

JsonRpcOutcomeIgnoresError(resp) ==
    IF ~resp.ok THEN Throw(HttpError(resp.status)) ELSE Return(resp.result)

JsonRpcOutcome(resp) ==
    IF ~resp.ok THEN Throw(HttpError(resp.status))
    ELSE IF Truthy(resp.error) THEN Throw(RpcError(RpcErrorMessage(resp.error)))
    ELSE Return(resp.result)

(***************************************************************************)
(* Transport responses.  Responses is every shape jsonRpc tells apart;     *)
(* LoginResponses and ExecResponses are the ones the backend answers the   *)
(* envelopes of the state machine with.                                    *)
(***************************************************************************)
Statuses == {200, 204, 404, 500}
IsOk(status) == status >= 200 /\ status <= 299

BackendMessage == Str("Access Denied")
ErrorValues ==
    { Undefined, Null,
      Str("boom"),
      Obj([code |-> Num(200)]),
      Obj([code |-> Num(200), data |-> Obj([name |-> Str("odoo.exceptions")])]),
      Obj([code |-> Num(200), data |-> Obj([message |-> BackendMessage])]) }

NoRecords == Arr(<<>>)
OneRecord == Arr(<<Obj([id |-> Num(5)])>>)
ResultValues == {Undefined, JsFalse, Num(7), NoRecords, OneRecord}

Responses ==
    { [ok |-> IsOk(st), status |-> st, error |-> e, result |-> r] :
        st \in Statuses, e \in ErrorValues, r \in ResultValues }

HttpFailure == [ok |-> FALSE, status |-> 500, error |-> Undefined, result |-> Undefined]
RemoteFailure ==
    [ok |-> TRUE, status |-> 200,
     error |-> Obj([code |-> Num(200), data |-> Obj([message |-> BackendMessage])]),
     result |-> Undefined]
Success(v) == [ok |-> TRUE, status |-> 200, error |-> Undefined, result |-> v]

LoginResponses == {HttpFailure, RemoteFailure, Success(Num(7)), Success(JsFalse), Success(Undefined)}
ExecResponses == {HttpFailure, RemoteFailure, Success(NoRecords), Success(OneRecord)}

(***************************************************************************)
(* fetch: the props it injects from the request headers or, when a         *)
(* mandatory header is missing, from the settings of the worker            *)
(***************************************************************************)
SyntaxError == [name |-> "SyntaxError"]

\* the JSON texts in use: a search domain, allow-lists, and texts that are
\* JSON but no array of strings
DomainJson == "[[\"vat\",\"=\",\"X\"]]"
OneToolJson == "[\"search_product_by_reference_code\"]"
OrderToolJson == "[\"create_sale_order\",\"other_tool\"]"
OtherToolJson == "[\"other_tool\"]"
EmptyArrayJson == "[]"
MixedArrayJson == "[\"create_sale_order\",1]"
ObjectJson == "{\"tools\":[]}"
StringJson == "\"create_sale_order\""
NoJson == "create_sale_order,"

JsonParse(text) ==
    CASE text = DomainJson ->
            Return(Arr(<<Arr(<<Str("vat"), Str("="), Str("X")>>)>>))
      [] text = OneToolJson -> Return(Arr(<<Str("search_product_by_reference_code")>>))
      [] text = OrderToolJson -> Return(Arr(<<Str("create_sale_order"), Str("other_tool")>>))
      [] text = OtherToolJson -> Return(Arr(<<Str("other_tool")>>))
      [] text = EmptyArrayJson -> Return(Arr(<<>>))
      [] text = MixedArrayJson -> Return(Arr(<<Str("create_sale_order"), Num(1)>>))
      [] text = ObjectJson -> Return(Obj([tools |-> Arr(<<>>)]))
      [] text = StringJson -> Return(Str("create_sale_order"))
      [] OTHER -> Throw(SyntaxError)

\* Array.isArray(v) && v.every((item) => typeof item === "string")
IsStringArray(v) ==
    /\ v.type = "array"
    /\ \A i \in DOMAIN v.items : v.items[i].type = "string"

Strings(v) == [i \in DOMAIN v.items |-> v.items[i].s]

\* mutant of ToolsToUse: the parse error is not caught
ToolsToUseUncaught(text) ==
    IF ~Truthy(text) THEN Return(<<>>)
    ELSE LET parsed == JsonParse(text.s)
         IN IF parsed.kind = "throw" THEN parsed
            ELSE IF ~IsStringArray(parsed.value) THEN Return(<<>>)
            ELSE Return(Strings(parsed.value))

\* the allow-list read from the `to-use` header, and likewise from TO_USE:
\* empty unless the text is JSON for an array of strings
ToolsToUse(text) ==
    IF ~Truthy(text) THEN Return(<<>>)
    ELSE LET parsed == JsonParse(text.s)
         IN IF parsed.kind = "throw" THEN Return(<<>>)
            ELSE IF ~IsStringArray(parsed.value) THEN Return(<<>>)
            ELSE Return(Strings(parsed.value))

MandatoryHeaders == {"odoo-url", "odoo-db", "odoo-user", "odoo-pass"}
OptionalHeaders ==
    {"algolia-api-key", "algolia-app-id", "algolia-index-name", "laburen-api-key"}
HeaderNames == MandatoryHeaders \cup OptionalHeaders \cup {"odoo-timeout", "to-use"}

\* x || d, x a string, null or undefined: the text it yields
TextOr(x, d) == IF Truthy(x) THEN x.s ELSE d

DefaultUrl == "https://tu-odoo-instance.com"
DefaultDb == "tu_database"
DefaultUser == "usuario@ejemplo.com"
DefaultPass == "tu_password"
DefaultTimeoutText == "60000"

\* mutant of UsesSettings: an empty value counts as missing for the URL only
UsesSettingsWhenUrlEmpty(headers) ==
    \/ \E name \in MandatoryHeaders : headers[name] = Null
    \/ headers["odoo-url"] = Str("")

\* mutant of UsesSettings: a header sent with an empty value counts as given
UsesSettingsWhenAbsent(headers) == \E name \in MandatoryHeaders : headers[name] = Null

\* if (!odooUrl || !odooDb || !odooUser || !odooPass)
UsesSettings(headers) == \E name \in MandatoryHeaders : ~Truthy(headers[name])

\* mutant of EnvConfig: a backend setting gives way to its literal default only
\* when it is unset, not when it is empty
EnvConfigKeepsEmpty(env, envToolsToUse) ==
    [odooUrl |-> IF env.ODOO_URL = Undefined THEN DefaultUrl ELSE env.ODOO_URL.s,
     odooDb |-> IF env.ODOO_DB = Undefined THEN DefaultDb ELSE env.ODOO_DB.s,
     odooUser |-> IF env.ODOO_USER = Undefined THEN DefaultUser ELSE env.ODOO_USER.s,
     odooPass |-> IF env.ODOO_PASS = Undefined THEN DefaultPass ELSE env.ODOO_PASS.s,
     odooTimeout |-> TextOr(env.ODOO_TIMEOUT, DefaultTimeoutText),
     algoliaApiKey |-> Str(TextOr(env.ALGOLIA_API_KEY, "")),
     algoliaAppId |-> Str(TextOr(env.ALGOLIA_APP_ID, "")),
     algoliaIndexName |-> Str(TextOr(env.ALGOLIA_INDEX_NAME, "")),
     laburenApiKey |-> Str(TextOr(env.LABUREN_API_KEY, "")),
     toolsToUse |-> envToolsToUse]

EnvConfig(env, envToolsToUse) ==
    [odooUrl |-> TextOr(env.ODOO_URL, DefaultUrl),
     odooDb |-> TextOr(env.ODOO_DB, DefaultDb),
     odooUser |-> TextOr(env.ODOO_USER, DefaultUser),
     odooPass |-> TextOr(env.ODOO_PASS, DefaultPass),
     odooTimeout |-> TextOr(env.ODOO_TIMEOUT, DefaultTimeoutText),
     algoliaApiKey |-> Str(TextOr(env.ALGOLIA_API_KEY, "")),
     algoliaAppId |-> Str(TextOr(env.ALGOLIA_APP_ID, "")),
     algoliaIndexName |-> Str(TextOr(env.ALGOLIA_INDEX_NAME, "")),
     laburenApiKey |-> Str(TextOr(env.LABUREN_API_KEY, "")),
     toolsToUse |-> envToolsToUse]

\* mutant of HeaderConfig: the odoo-timeout header is not read
HeaderConfigFixedTimeout(headers, toolsToUse) ==
    [odooUrl |-> headers["odoo-url"].s,
     odooDb |-> headers["odoo-db"].s,
     odooUser |-> headers["odoo-user"].s,
     odooPass |-> headers["odoo-pass"].s,
     odooTimeout |-> DefaultTimeoutText,
     algoliaApiKey |-> headers["algolia-api-key"],
     algoliaAppId |-> headers["algolia-app-id"],
     algoliaIndexName |-> headers["algolia-index-name"],
     laburenApiKey |-> headers["laburen-api-key"],
     toolsToUse |-> toolsToUse]

HeaderConfig(headers, toolsToUse) ==
    [odooUrl |-> headers["odoo-url"].s,
     odooDb |-> headers["odoo-db"].s,
     odooUser |-> headers["odoo-user"].s,
     odooPass |-> headers["odoo-pass"].s,
     odooTimeout |-> TextOr(headers["odoo-timeout"], DefaultTimeoutText),
     algoliaApiKey |-> headers["algolia-api-key"],
     algoliaAppId |-> headers["algolia-app-id"],
     algoliaIndexName |-> headers["algolia-index-name"],
     laburenApiKey |-> headers["laburen-api-key"],
     toolsToUse |-> toolsToUse]

\* mutant of ContextProps: the allow-list of TO_USE is used in both branches
ContextPropsSettingsAllowList(headers, env) ==
    LET envToolsToUse == ToolsToUse(env.TO_USE)
    IN IF UsesSettings(headers)
       THEN Return(EnvConfig(env, envToolsToUse.value))
       ELSE Return(HeaderConfig(headers, envToolsToUse.value))

\* the props of the context fetch hands to the agent, or what it throws
ContextProps(headers, env) ==
    LET toolsToUse == ToolsToUse(headers["to-use"])
        envToolsToUse == ToolsToUse(env.TO_USE)
    IN IF toolsToUse.kind = "throw" THEN toolsToUse
       ELSE IF envToolsToUse.kind = "throw" THEN envToolsToUse
       ELSE IF UsesSettings(headers)
       THEN Return(EnvConfig(env, envToolsToUse.value))
       ELSE Return(HeaderConfig(headers, toolsToUse.value))

\* mutant of Route: every path is served
RouteEveryPath(pathname) ==
    IF pathname = "/sse" \/ pathname = "/sse/message" THEN "serveSSE" ELSE "serve"

Route(pathname) ==
    IF pathname = "/sse" \/ pathname = "/sse/message" THEN "serveSSE"
    ELSE IF pathname = "/mcp" THEN "serve"
    ELSE "notFound"

NotFound == [status |-> 404, body |-> "Not found"]

\* requests and settings
NoHeaders == [name \in HeaderNames |-> Null]
NoSettings ==
    [ODOO_URL |-> Undefined, ODOO_DB |-> Undefined, ODOO_USER |-> Undefined,
     ODOO_PASS |-> Undefined, ODOO_TIMEOUT |-> Undefined,
     ALGOLIA_API_KEY |-> Undefined, ALGOLIA_APP_ID |-> Undefined,
     ALGOLIA_INDEX_NAME |-> Undefined, LABUREN_API_KEY |-> Undefined,
     TO_USE |-> Undefined]

With(headers, values) ==
    [name \in HeaderNames |-> IF name \in DOMAIN values THEN values[name] ELSE headers[name]]

Backend(url, db, user, pass) ==
    ("odoo-url" :> Str(url)) @@ ("odoo-db" :> Str(db)) @@
    ("odoo-user" :> Str(user)) @@ ("odoo-pass" :> Str(pass))

TenantAHeaders ==
    With(NoHeaders, Backend("https://a.example", "dbA", "userA", "passA"))
TenantBHeaders ==
    With(With(NoHeaders, Backend("https://b.example", "dbB", "userB", "passB")),
         "odoo-timeout" :> Str("5000"))

HttpRequest(pathname, headers) == [pathname |-> pathname, headers |-> headers]
TenantRequests ==
    {HttpRequest("/mcp", TenantAHeaders), HttpRequest("/sse", TenantBHeaders)}

(***************************************************************************)
(* Props injected by fetch and read by the agent                           *)
(***************************************************************************)
TenantA == HeaderConfig(TenantAHeaders, <<>>)
TenantB == HeaderConfig(TenantBHeaders, <<>>)
Bundles == {TenantA, TenantB}

\* x || d on strings
OrElse(x, d) == IF x = "" THEN d ELSE x

\* parseInt(s, 10) on the timeout strings in use
ParseInt(s) ==
    CASE s = "60000" -> Num(60000)
      [] s = "5000" -> Num(5000)
      [] OTHER -> [type |-> "number", nan |-> TRUE]

GetConfigFromContext(contextProps) ==
    [odooConfig |->
        [baseUrl |-> OrElse(contextProps.odooUrl, ""),
         db |-> OrElse(contextProps.odooDb, ""),
         username |-> OrElse(contextProps.odooUser, ""),
         password |-> OrElse(contextProps.odooPass, ""),
         timeout |-> ParseInt(OrElse(contextProps.odooTimeout, "60000"))],
     algoliaConfig |->
        [apiKey |-> TextOr(contextProps.algoliaApiKey, ""),
         appId |-> TextOr(contextProps.algoliaAppId, ""),
         indexName |-> TextOr(contextProps.algoliaIndexName, "")],
     toolsToUse |-> contextProps.toolsToUse,
     laburenApiKey |-> TextOr(contextProps.laburenApiKey, "")]

(***************************************************************************)
(* OdooClient                                                              *)
(***************************************************************************)
\* constructor: this.cfg = { timeout: 60000, ...cfg }; uid = null
OdooClient(cfg) ==
    [cfg |-> IF "timeout" \in DOMAIN cfg THEN cfg
             ELSE [f \in DOMAIN cfg \cup {"timeout"} |->
                     IF f = "timeout" THEN Num(DefaultTimeout) ELSE cfg[f]],
     uid |-> Null]

\* mutant of LoginNeeded: the cached uid is not consulted
LoginNeededAlways(uid) == TRUE

\* login(): if (this.uid != null) return;
LoginNeeded(uid) == ~NotNullish(uid)

LoginArgs(cfg) == <<Str(cfg.db), Str(cfg.username), Str(cfg.password)>>

\* mutant of ExecuteKwArgs: the password before the uid
ExecuteKwArgsSwapped(cfg, uid, req) ==
    <<Str(cfg.db), Str(cfg.password), uid, Str(req.model), Str(req.method),
      req.args, req.kwargs>>

ExecuteKwArgs(cfg, uid, req) ==
    <<Str(cfg.db), uid, Str(cfg.password), Str(req.model), Str(req.method),
      req.args, req.kwargs>>

\* jsonRpc: the POST to `${baseUrl}/jsonrpc`, and its response once it came
Envelope(cfg, service, method, args) ==
    [url |-> <<cfg.baseUrl, "/jsonrpc">>, timeout |-> cfg.timeout,
     service |-> service, method |-> method, args |-> args, resp |-> <<>>]

LoginEnvelope(cfg) == Envelope(cfg, "common", "login", LoginArgs(cfg))
ExecEnvelope(cfg, uid, req) ==
    Envelope(cfg, "object", "execute_kw", ExecuteKwArgs(cfg, uid, req))

Pending == [kind |-> "pending"]

\* executeKw up to its first suspension, `await this.login()`: login() sends
\* the login envelope, or returns at once when the uid is cached
ExecuteKw(client, req) ==
    IF LoginNeeded(client.uid)
    THEN [req |-> req, pc |-> "awaitLogin", out |-> Pending,
          sent |-> <<LoginEnvelope(client.cfg)>>]
    ELSE [req |-> req, pc |-> "loggedIn", out |-> Pending, sent |-> <<>>]

Request(model, method, args, kwargs) ==
    [model |-> model, method |-> method, args |-> args, kwargs |-> kwargs]

(***************************************************************************)
(* Handlers of OdooMCP.init.  A handler runs until it awaits executeKw     *)
(* (next holds the request) or ends (status "returned" or "threw").        *)
(***************************************************************************)
ToolNames == {"search_product_by_reference_code", "create_sale_order"}
ResourceNames == {"models", "model", "record", "search"}

ReferenceCodes == {"REF-1"}
TaxIds == {"VAT-1"}
Models == {"res.partner"}
RecordIds == {"5", "999999"}

\* Number(id) on the id segments in use
NumberOf(text) ==
    CASE text = "5" -> Num(5)
      [] text = "999999" -> Num(999999)
      [] OTHER -> [type |-> "number", nan |-> TRUE]

OrderLine(code, qty) == [reference_code |-> code, qty |-> qty]
LineLists ==
    UNION { [1..n -> {OrderLine(code, 1) : code \in ReferenceCodes}] : n \in 0..MaxLines }

ToolInputs(name) ==
    IF name = "search_product_by_reference_code"
    THEN { [reference_code |-> code] : code \in ReferenceCodes }
    ELSE { [tax_id |-> t, confirm |-> cf, lines |-> ls] :
             t \in TaxIds, cf \in BOOLEAN, ls \in LineLists }

\* the domain segment of a search address: a URL-encoded JSON domain, one that
\* decodes to text that is no JSON, and one that is no URL encoding
EncodedVatDomain == "%5B%5B%22vat%22%2C%22%3D%22%2C%22X%22%5D%5D"
EncodedNoJson == "%5B%5B"
MalformedEncoding == "%E0%A4%A"
DomainSegments == {EncodedVatDomain, EncodedNoJson, MalformedEncoding}

URIError == [name |-> "URIError"]

DecodeURIComponent(segment) ==
    CASE segment = EncodedVatDomain -> Return(DomainJson)
      [] segment = EncodedNoJson -> Return("[[")
      [] OTHER -> Throw(URIError)

ResourceInputs(name) ==
    CASE name = "models" -> { [uri |-> "odoo://models"] }
      [] name = "model" -> { [pathname |-> <<"", m>>] : m \in Models }
      [] name = "record" -> { [pathname |-> <<"", m, i>>] : m \in Models, i \in RecordIds }
      [] OTHER -> { [pathname |-> <<"", m, d>>] : m \in Models, d \in DomainSegments }

Domain(field, op, value) == Arr(<<Arr(<<Str(field), Str(op), Str(value)>>)>>)
Fields(names) == Arr(names)

\* (error as Error).message || error
ErrorText(e) ==
    LET msg == IF "http" \in DOMAIN e THEN Str("HTTP")
               ELSE IF "message" \in DOMAIN e THEN e.message
               ELSE Str("not iterable")
    IN IF Truthy(msg) THEN msg ELSE Obj(e)

TextContent(text) == [content |-> <<[type |-> "text", text |-> text]>>]
Json(v) == [json |-> v]
Failure(prefix, e) == TextContent([prefix |-> prefix, message |-> ErrorText(e)])

Returned(h, value) == [handler |-> [h EXCEPT !.status = "returned", !.value = value], next |-> <<>>]
Threw(h, e) == [handler |-> [h EXCEPT !.status = "threw", !.value = e], next |-> <<>>]
Await(h, phase, req) == [handler |-> [h EXCEPT !.phase = phase], next |-> <<req>>]

NewHandler(a, name, c, input) ==
    [agent |-> a, name |-> name, client |-> c, input |-> input, phase |-> "start",
     line |-> 0, orderId |-> Undefined, status |-> "running", value |-> Undefined,
     calls |-> <<>>]

\* const [x] = await executeKw(...) : the awaited outcome, destructured
FirstOfOutcome(out) ==
    IF out.kind = "throw" THEN out
    ELSE IF ~IsIterable(out.value) THEN Throw(TypeError)
    ELSE Return(FirstOf(out.value))

SearchProductStart(h) ==
    Await(h, "product",
          Request("product.product", "search_read",
                  Arr(<<Domain("default_code", "=", h.input.reference_code)>>),
                  Obj([fields |-> Fields(<<Str("id"), Str("name"), Str("default_code"),
                                           Str("list_price"), Str("qty_available")>>),
                       limit |-> Num(1)])))

SearchProductResume(h, out) ==
    LET product == FirstOfOutcome(out)
    IN IF product.kind = "throw"
       THEN Returned(h, Failure("Error al buscar producto: ", product.error))
       ELSE IF ~Truthy(product.value)
       THEN Returned(h, TextContent(Json(Obj([error |-> Str("Product not found")]))))
       ELSE Returned(h, TextContent(Json(product.value)))

\* mutant of SaleOrderFailure: the error is thrown on
SaleOrderFailureRethrown(h, e) == Threw(h, e)

SaleOrderFailure(h, e) == Returned(h, Failure("Error al crear orden de venta: ", e))

SaleOrderStart(h) ==
    Await(h, "partner",
          Request("res.partner", "search_read",
                  Arr(<<Domain("vat", "=", h.input.tax_id)>>),
                  Obj([fields |-> Fields(<<Str("id")>>), limit |-> Num(1)])))

\* mutant of SaleOrderLines: the lines are taken from the last to the first
SaleOrderLinesReversed(h, i) ==
    IF i > Len(h.input.lines)
    THEN Returned(h, TextContent(Json(Obj([order_id |-> h.orderId,
                                           confirmed |-> h.input.confirm]))))
    ELSE Await([h EXCEPT !.line = i], "product",
               Request("product.product", "search_read",
                       Arr(<<Domain("default_code", "=",
                                    h.input.lines[Len(h.input.lines) + 1 - i].reference_code)>>),
                       Obj([fields |-> Fields(<<Str("id")>>), limit |-> Num(1)])))

\* for (const line of lines) { search the product ... }, then the result
SaleOrderLines(h, i) ==
    IF i > Len(h.input.lines)
    THEN Returned(h, TextContent(Json(Obj([order_id |-> h.orderId,
                                           confirmed |-> h.input.confirm]))))
    ELSE Await([h EXCEPT !.line = i], "product",
               Request("product.product", "search_read",
                       Arr(<<Domain("default_code", "=", h.input.lines[i].reference_code)>>),
                       Obj([fields |-> Fields(<<Str("id")>>), limit |-> Num(1)])))

\* mutant of SaleOrderResume: the partner found is not examined
SaleOrderResumeUnchecked(h, out) ==
    IF out.kind = "throw" THEN SaleOrderFailure(h, out.error)
    ELSE CASE h.phase = "partner" ->
                LET partner == FirstOfOutcome(out)
                IN IF partner.kind = "throw" THEN SaleOrderFailure(h, partner.error)
                   ELSE Await(h, "order",
                              Request("sale.order", "create",
                                      Arr(<<Obj([partner_id |-> Field(partner.value, "id")])>>),
                                      Obj(<<>>)))
           [] h.phase = "order" -> SaleOrderLines([h EXCEPT !.orderId = out.value], 1)
           [] h.phase = "product" ->
                LET prod == FirstOfOutcome(out)
                IN IF prod.kind = "throw" THEN SaleOrderFailure(h, prod.error)
                   ELSE IF ~Truthy(prod.value)
                   THEN SaleOrderFailure(h, RpcError(Str("Product " \o h.input.lines[h.line].reference_code
                                                                 \o " missing")))
                   ELSE Await(h, "line",
                              Request("sale.order.line", "create",
                                      Arr(<<Obj([order_id |-> h.orderId,
                                                 product_id |-> Field(prod.value, "id"),
                                                 product_uom_qty |-> Num(h.input.lines[h.line].qty)])>>),
                                      Obj(<<>>)))
           [] OTHER -> SaleOrderLines(h, h.line + 1)

SaleOrderResume(h, out) ==
    IF out.kind = "throw" THEN SaleOrderFailure(h, out.error)
    ELSE CASE h.phase = "partner" ->
                LET partner == FirstOfOutcome(out)
                IN IF partner.kind = "throw" THEN SaleOrderFailure(h, partner.error)
                   ELSE IF ~Truthy(partner.value)
                   THEN SaleOrderFailure(h, RpcError(Str("Partner not found")))
                   ELSE Await(h, "order",
                              Request("sale.order", "create",
                                      Arr(<<Obj([partner_id |-> Field(partner.value, "id")])>>),
                                      Obj(<<>>)))
           [] h.phase = "order" -> SaleOrderLines([h EXCEPT !.orderId = out.value], 1)
           [] h.phase = "product" ->
                LET prod == FirstOfOutcome(out)
                IN IF prod.kind = "throw" THEN SaleOrderFailure(h, prod.error)
                   ELSE IF ~Truthy(prod.value)
                   THEN SaleOrderFailure(h, RpcError(Str("Product " \o h.input.lines[h.line].reference_code
                                                                 \o " missing")))
                   ELSE Await(h, "line",
                              Request("sale.order.line", "create",
                                      Arr(<<Obj([order_id |-> h.orderId,
                                                 product_id |-> Field(prod.value, "id"),
                                                 product_uom_qty |-> Num(h.input.lines[h.line].qty)])>>),
                                      Obj(<<>>)))
           [] OTHER -> SaleOrderLines(h, h.line + 1)

ModelsStart(h) ==
    Await(h, "read",
          Request("ir.model", "search_read",
                  Arr(<<Arr(<<>>), Arr(<<Str("model"), Str("name")>>)>>), Obj(<<>>)))

\* const [, model, id] = req.pathname.split("/")
RecordStart(h) ==
    LET model == h.input.pathname[2]
        id == h.input.pathname[3]
    IN Await(h, "read",
             Request(model, "read", Arr(<<Arr(<<NumberOf(id)>>)>>), Obj(<<>>)))

\* const model = req.pathname.split("/").pop()
ModelStart(h) ==
    LET model == h.input.pathname[Len(h.input.pathname)]
    IN Await(h, "read",
             Request(model, "fields_get",
                     Arr(<<Arr(<<>>), Arr(<<Str("string"), Str("type"), Str("required")>>)>>),
                     Obj(<<>>)))

\* mutant of SearchStart: a segment that cannot be read falls back to the
\* empty domain
SearchStartEmptyDomain(h) ==
    LET model == h.input.pathname[2]
        decoded == DecodeURIComponent(h.input.pathname[3])
        domain == IF decoded.kind = "throw" THEN decoded ELSE JsonParse(decoded.value)
    IN Await(h, "read",
             Request(model, "search_read",
                     Arr(<<IF domain.kind = "throw" THEN Arr(<<>>) ELSE domain.value>>),
                     Obj(<<>>)))

\* mutant of SearchStart: the decoded text is forwarded unparsed
SearchStartUnparsed(h) ==
    LET decoded == DecodeURIComponent(h.input.pathname[3])
    IN IF decoded.kind = "throw" THEN Threw(h, decoded.error)
       ELSE Await(h, "read",
                  Request(h.input.pathname[2], "search_read",
                          Arr(<<Str(decoded.value)>>), Obj(<<>>)))

\* const [, model, domainStr] = req.pathname.split("/");
\* const domain = JSON.parse(decodeURIComponent(domainStr))
SearchStart(h) ==
    LET model == h.input.pathname[2]
        decoded == DecodeURIComponent(h.input.pathname[3])
        domain == IF decoded.kind = "throw" THEN decoded ELSE JsonParse(decoded.value)
    IN IF domain.kind = "throw" THEN Threw(h, domain.error)
       ELSE Await(h, "read", Request(model, "search_read", Arr(<<domain.value>>), Obj(<<>>)))

\* mutant of ResourceResume: a record that is not there is returned as it is
ResourceResumeNoDefault(h, out) ==
    IF h.name = "record"
    THEN LET rec == FirstOfOutcome(out)
         IN IF rec.kind = "throw" THEN Threw(h, rec.error) ELSE Returned(h, rec.value)
    ELSE IF out.kind = "throw" THEN Threw(h, out.error)
    ELSE Returned(h, out.value)

\* the resource handlers catch nothing; the record handler returns
\* `rec ?? {}` for the first element of what executeKw returned
ResourceResume(h, out) ==
    IF h.name = "record"
    THEN LET rec == FirstOfOutcome(out)
         IN IF rec.kind = "throw" THEN Threw(h, rec.error)
            ELSE Returned(h, IF NotNullish(rec.value) THEN rec.value ELSE Obj(<<>>))
    ELSE IF out.kind = "throw" THEN Threw(h, out.error)
    ELSE Returned(h, out.value)

HandlerStart(h) ==
    CASE h.name = "search_product_by_reference_code" -> SearchProductStart(h)
      [] h.name = "create_sale_order" -> SaleOrderStart(h)
      [] h.name = "models" -> ModelsStart(h)
      [] h.name = "model" -> ModelStart(h)
      [] h.name = "record" -> RecordStart(h)
      [] OTHER -> SearchStart(h)

HandlerResume(h, out) ==
    CASE h.name = "search_product_by_reference_code" -> SearchProductResume(h, out)
      [] h.name = "create_sale_order" -> SaleOrderResume(h, out)
      [] OTHER -> ResourceResume(h, out)

(***************************************************************************)
(* OdooMCP: registration and client construction                           *)
(***************************************************************************)
Range(seq) == { seq[i] : i \in DOMAIN seq }

\* mutant of ShouldIgnoreTool: an empty list is not told apart
ShouldIgnoreToolClosed(contextProps, toolName) ==
    toolName \notin Range(GetConfigFromContext(contextProps).toolsToUse)

ShouldIgnoreTool(contextProps, toolName) ==
    LET toolsToUse == GetConfigFromContext(contextProps).toolsToUse
    IN IF Len(toolsToUse) = 0 THEN FALSE
       ELSE toolName \notin Range(toolsToUse)

\* mutant of RegisteredTools: the gate is not consulted
RegisteredToolsAll(contextProps) == ToolNames

RegisteredTools(contextProps) ==
    { name \in ToolNames : ~ShouldIgnoreTool(contextProps, name) }

\* mutant of RegisteredResources: the gate is applied to the resources too
RegisteredResourcesGated(contextProps) ==
    { name \in ResourceNames : ~ShouldIgnoreTool(contextProps, name) }

\* this.server.resource(...) four times, under no condition
RegisteredResources(contextProps) == ResourceNames

\* mutant of GetOdooClient: the new client starts with a session carried over
GetOdooClientWithSession(contextProps) ==
    [OdooClient(GetConfigFromContext(contextProps).odooConfig) EXCEPT !.uid = Num(7)]

\* new OdooClient(odooConfig) from the props of the agent
GetOdooClient(contextProps) == OdooClient(GetConfigFromContext(contextProps).odooConfig)

\* mutant of BuildsClient: every handler uses this.odoo as init() built it
BuildsClientNever(name) == FALSE

\* the client a handler invocation calls executeKw on: the tool handlers build
\* one (this.getOdooClient()), the resource handlers use this.odoo
BuildsClient(name) == name \in ToolNames

(***************************************************************************)
(* State machine                                                           *)
(***************************************************************************)
RpcIdle == [resp |-> HttpFailure, out |-> Pending]

Init ==
    /\ requests = <<>>
    /\ agents = <<>>
    /\ clients = <<>>
    /\ uidWrites = <<>>
    /\ handlers = <<>>
    /\ rpc = RpcIdle
    /\ sheet = <<>>
    /\ sheetTools = <<>>

\* the call a handler awaits is its last one
Awaits(h, pc) ==
    /\ handlers[h].calls # <<>>
    /\ handlers[h].calls[Len(handlers[h].calls)].pc = pc

InFlight(c) ==
    \E h \in DOMAIN handlers :
        /\ handlers[h].client = c
        /\ (Awaits(h, "awaitLogin") \/ Awaits(h, "loggedIn") \/ Awaits(h, "awaitExec"))

\* init() of the agent the request is served by: it builds this.odoo from the
\* props and registers the tools the gate admits, and the four resources
OdooMCPInit(contextProps) ==
    /\ agents' = Append(agents, [props |-> contextProps,
                                 odoo |-> Len(clients) + 1,
                                 tools |-> RegisteredTools(contextProps),
                                 resources |-> RegisteredResources(contextProps)])
    /\ clients' = Append(clients, GetOdooClient(contextProps))
    /\ uidWrites' = Append(uidWrites, 0)

\* the execution context a request arrives with: ctx.props is undefined, or
\* holds what whoever built ctx left there
PlainContext == [props |-> <<>>]
PropsOf(ctx) == IF ctx.props = <<>> THEN <<>> ELSE ctx.props[1]

\* mutant of Injected: the props are assigned to ctx itself
InjectedInPlace(ctx, config) ==
    LET props == config @@ PropsOf(ctx)
    IN [ctx |-> [ctx EXCEPT !.props = <<props>>], context |-> [props |-> <<props>>]]

\* context = Object.assign(Object.create(ctx), ctx,
\*                        {props: {...ctx.props, ...config}}):
\* a new object; ctx is what is copied from, and stays as it was
Injected(ctx, config) ==
    [ctx |-> ctx, context |-> [props |-> <<config @@ PropsOf(ctx)>>]]

\* a request fetch has answered: what it was called with, what it resolved,
\* and ctx and env as they are when it returns
Taken(request, env, ctx, after, route, props, response, agent) ==
    [request |-> request, env |-> env, ctx |-> ctx, after |-> after,
     route |-> route, props |-> props, response |-> response, agent |-> agent]

\* fetch: it resolves the props, then serves the request on one of the three
\* paths (the host starts the agent with the props) or answers 404
FetchIn(request, env, ctx) ==
    /\ Len(agents) < MaxAgents
    /\ LET props == ContextProps(request.headers, env)
           route == Route(request.pathname)
       IN IF props.kind = "throw"
          THEN /\ requests' = Append(requests,
                                     Taken(request, env, ctx, [ctx |-> ctx, env |-> env],
                                           "threw", <<>>, <<>>, 0))
               /\ UNCHANGED <<agents, clients, uidWrites>>
          ELSE LET injected == Injected(ctx, props.value)
                   after == [ctx |-> injected.ctx, env |-> env]
               IN IF route = "notFound"
                  THEN /\ requests' = Append(requests,
                                             Taken(request, env, ctx, after, route,
                                                   injected.context.props, <<NotFound>>, 0))
                       /\ UNCHANGED <<agents, clients, uidWrites>>
                  ELSE /\ requests' = Append(requests,
                                             Taken(request, env, ctx, after, route,
                                                   injected.context.props, <<>>,
                                                   Len(agents) + 1))
                       /\ OdooMCPInit(injected.context.props[1])
    /\ UNCHANGED <<handlers, rpc, sheet, sheetTools>>

\* a request whose execution context carries no props
Fetch(request, env) == FetchIn(request, env, PlainContext)

\* the handler goes on to its next await: the call it starts is appended
Proceed(step, client) ==
    IF step.next = <<>> THEN step.handler
    ELSE [step.handler EXCEPT !.calls = Append(@, ExecuteKw(client, step.next[1]))]

\* a handler invocation up to its first await
Invoke(a, name, input) ==
    /\ Len(handlers) < MaxHandlers
    /\ LET fresh == BuildsClient(name)
           c == IF fresh THEN Len(clients) + 1 ELSE agents[a].odoo
           cl == IF fresh THEN Append(clients, GetOdooClient(agents[a].props)) ELSE clients
       IN /\ clients' = cl
          /\ uidWrites' = IF fresh THEN Append(uidWrites, 0) ELSE uidWrites
          /\ agents' = [agents EXCEPT ![a].odoo = c]
          /\ handlers' = Append(handlers,
                                Proceed(HandlerStart(NewHandler(a, name, c, input)), cl[c]))
    /\ UNCHANGED <<requests, rpc, sheet, sheetTools>>

InvokeTool(a, name, input) ==
    /\ name \in agents[a].tools
    /\ Invoke(a, name, input)

ReadResource(a, name, input) ==
    /\ name \in agents[a].resources
    /\ Invoke(a, name, input)

\* the awaited call of handler h ends with outcome out, its envelope e
\* answered by resp, and the handler goes on
Settle(h, e, resp, out) ==
    LET k == Len(handlers[h].calls)
        ended == [handlers[h] EXCEPT
                    !.calls[k].pc = IF out.kind = "throw" THEN "failed" ELSE "done",
                    !.calls[k].out = out,
                    !.calls[k].sent[e].resp = <<resp>>]
    IN handlers' = [handlers EXCEPT
                      ![h] = Proceed(HandlerResume(ended, out), clients[ended.client])]

\* login(): this.uid = await this.jsonRpc("common", "login", ...)
StoreUid(client, value) == [client EXCEPT !.uid = value]

\* the response to a login envelope: jsonRpc throws and so does executeKw, or
\* login() stores the result and returns
LoginResponse(h, resp) ==
    /\ Awaits(h, "awaitLogin")
    /\ LET k == Len(handlers[h].calls)
           c == handlers[h].client
           out == JsonRpcOutcome(resp)
       IN IF out.kind = "throw"
          THEN /\ Settle(h, 1, resp, out)
               /\ UNCHANGED <<clients, uidWrites>>
          ELSE /\ clients' = [clients EXCEPT ![c] = StoreUid(clients[c], out.value)]
               /\ uidWrites' = [uidWrites EXCEPT ![c] = @ + 1]
               /\ handlers' = [handlers EXCEPT ![h].calls[k].pc = "loggedIn",
                                               ![h].calls[k].sent[1].resp = <<resp>>]
    /\ UNCHANGED <<requests, agents, rpc, sheet, sheetTools>>

\* executeKw after `await this.login()`: the execution envelope, with the uid
\* the client holds now
SendExecute(h) ==
    /\ Awaits(h, "loggedIn")
    /\ LET k == Len(handlers[h].calls)
           client == clients[handlers[h].client]
       IN handlers' = [handlers EXCEPT
              ![h].calls[k].pc = "awaitExec",
              ![h].calls[k].sent =
                  Append(@, ExecEnvelope(client.cfg, client.uid, handlers[h].calls[k].req))]
    /\ UNCHANGED <<requests, agents, clients, uidWrites, rpc, sheet, sheetTools>>

\* the response to an execution envelope: executeKw throws or returns result
ExecResponse(h, resp) ==
    /\ Awaits(h, "awaitExec")
    /\ Settle(h, Len(handlers[h].calls[Len(handlers[h].calls)].sent), resp,
              JsonRpcOutcome(resp))
    /\ UNCHANGED <<requests, agents, clients, uidWrites, rpc, sheet, sheetTools>>

\* Spec and SeqSpec drive the clients through the handlers that make one
\* executeKw call each; ToolSpec adds create_sale_order on one agent.
SingleCallTools == {"search_product_by_reference_code"}
SingleCallResources == {"models"}

Next ==
    \/ \E request \in TenantRequests : Fetch(request, NoSettings)
    \/ \E a \in DOMAIN agents, name \in SingleCallTools :
          \E input \in ToolInputs(name) : InvokeTool(a, name, input)
    \/ \E a \in DOMAIN agents, name \in SingleCallResources :
          \E input \in ResourceInputs(name) : ReadResource(a, name, input)
    \/ \E h \in DOMAIN handlers, resp \in LoginResponses : LoginResponse(h, resp)
    \/ \E h \in DOMAIN handlers : SendExecute(h)
    \/ \E h \in DOMAIN handlers, resp \in ExecResponses : ExecResponse(h, resp)

Spec == Init /\ [][Next]_vars

(***************************************************************************)
(* The same agents, each client used by sequential calls only: a handler   *)
(* starts on a client when no call is in flight on it.                     *)
(***************************************************************************)
SeqInvokeTool(a, name, input) == InvokeTool(a, name, input)

SeqReadResource(a, name, input) ==
    /\ ~InFlight(agents[a].odoo)
    /\ ReadResource(a, name, input)

SeqNext ==
    \/ \E request \in TenantRequests : Fetch(request, NoSettings)
    \/ \E a \in DOMAIN agents, name \in SingleCallTools :
          \E input \in ToolInputs(name) : SeqInvokeTool(a, name, input)
    \/ \E a \in DOMAIN agents, name \in SingleCallResources :
          \E input \in ResourceInputs(name) : SeqReadResource(a, name, input)
    \/ \E h \in DOMAIN handlers, resp \in LoginResponses : LoginResponse(h, resp)
    \/ \E h \in DOMAIN handlers : SendExecute(h)
    \/ \E h \in DOMAIN handlers, resp \in ExecResponses : ExecResponse(h, resp)

SeqSpec == Init /\ [][SeqNext]_vars

(***************************************************************************)
(* One request: every tool and the models resource on one agent            *)
(***************************************************************************)
MaxInvocations == 2

ToolFetch(request, env) == Len(agents) = 0 /\ Fetch(request, env)

ToolInvoke(a, name, input) ==
    /\ Len(handlers) < MaxInvocations
    /\ \/ InvokeTool(a, name, input)
       \/ ReadResource(a, name, input)

ToolNext ==
    \/ \E request \in TenantRequests : ToolFetch(request, NoSettings)
    \/ \E a \in DOMAIN agents, name \in ToolNames \cup SingleCallResources :
          \E input \in IF name \in ToolNames THEN ToolInputs(name) ELSE ResourceInputs(name) :
             ToolInvoke(a, name, input)
    \/ \E h \in DOMAIN handlers, resp \in LoginResponses : LoginResponse(h, resp)
    \/ \E h \in DOMAIN handlers : SendExecute(h)
    \/ \E h \in DOMAIN handlers, resp \in ExecResponses : ExecResponse(h, resp)

ToolSpec == Init /\ [][ToolNext]_vars

(***************************************************************************)
(* fetch applied to one request, over the header and setting combinations  *)
(* it tells apart                                                          *)
(***************************************************************************)
GivenHeader(name) ==
    CASE name = "odoo-url" -> Str("https://x")
      [] name = "odoo-db" -> Str("d")
      [] name = "odoo-user" -> Str("u")
      [] name = "odoo-pass" -> Str("p")
      [] name = "odoo-timeout" -> Str("5000")
      [] OTHER -> Str("from-header")

\* each mandatory header absent or given, and the URL and the password also
\* sent with an empty value
MandatoryHeaderSets ==
    { [name \in MandatoryHeaders |->
          CASE choice[name] = "absent" -> Null
            [] choice[name] = "empty" -> Str("")
            [] OTHER -> GivenHeader(name)] :
        choice \in { c \in [MandatoryHeaders -> {"absent", "empty", "given"}] :
                        \A name \in {"odoo-db", "odoo-user"} : c[name] # "empty" } }

TimeoutHeaders == {Null, Str("5000"), Str("abc")}
OptionalHeaderSets == {{}, {"algolia-api-key"}}
ToUseHeaders ==
    {Null, Str(NoJson), Str(ObjectJson), Str(MixedArrayJson), Str(EmptyArrayJson),
     Str(OneToolJson), Str(OrderToolJson), Str(OtherToolJson)}

HeaderSets ==
    { [name \in HeaderNames |->
          IF name \in MandatoryHeaders THEN mandatory[name]
          ELSE IF name = "odoo-timeout" THEN timeout
          ELSE IF name = "to-use" THEN toUse
          ELSE IF name \in optional THEN GivenHeader(name)
          ELSE Null] :
        mandatory \in MandatoryHeaderSets, timeout \in TimeoutHeaders,
        optional \in OptionalHeaderSets, toUse \in ToUseHeaders }

\* the backend settings: none set, all set, or the URL set to the empty text
\* and the database alone given
BackendSettings ==
    { [ODOO_URL |-> Undefined, ODOO_DB |-> Undefined, ODOO_USER |-> Undefined,
       ODOO_PASS |-> Undefined],
      [ODOO_URL |-> Str("https://env.example"), ODOO_DB |-> Str("envdb"),
       ODOO_USER |-> Str("envuser"), ODOO_PASS |-> Str("envpass")],
      [ODOO_URL |-> Str(""), ODOO_DB |-> Str("envdb"), ODOO_USER |-> Undefined,
       ODOO_PASS |-> Undefined] }

OptionalSettings ==
    { [ALGOLIA_API_KEY |-> Undefined, ALGOLIA_APP_ID |-> Undefined,
       ALGOLIA_INDEX_NAME |-> Undefined, LABUREN_API_KEY |-> Undefined],
      [ALGOLIA_API_KEY |-> Str("from-setting"), ALGOLIA_APP_ID |-> Str("from-setting"),
       ALGOLIA_INDEX_NAME |-> Undefined, LABUREN_API_KEY |-> Undefined] }

TimeoutSettings == {Undefined, Str("5000")}
ToUseSettings ==
    {Undefined, Str(NoJson), Str(StringJson), Str(MixedArrayJson), Str(OrderToolJson)}

Settings ==
    { [ODOO_URL |-> backend.ODOO_URL, ODOO_DB |-> backend.ODOO_DB,
       ODOO_USER |-> backend.ODOO_USER, ODOO_PASS |-> backend.ODOO_PASS,
       ODOO_TIMEOUT |-> timeout,
       ALGOLIA_API_KEY |-> optional.ALGOLIA_API_KEY,
       ALGOLIA_APP_ID |-> optional.ALGOLIA_APP_ID,
       ALGOLIA_INDEX_NAME |-> optional.ALGOLIA_INDEX_NAME,
       LABUREN_API_KEY |-> optional.LABUREN_API_KEY,
       TO_USE |-> toUse] :
        backend \in BackendSettings, timeout \in TimeoutSettings,
        optional \in OptionalSettings, toUse \in ToUseSettings }

ServedPathnames == {"/sse", "/sse/message", "/mcp"}
OtherPathnames == {"/", "/mcp/", "/sse/other"}

ResolveNext ==
    /\ requests = <<>>
    /\ \E pathname \in {"/mcp", "/"}, headers \in HeaderSets, env \in Settings :
          Fetch(HttpRequest(pathname, headers), env)

ResolveSpec == Init /\ [][ResolveNext]_vars

(***************************************************************************)
(* One request on any path, and the tool and resource handlers of the      *)
(* agent it is served by                                                   *)
(***************************************************************************)
MaxServed == 2

ScenarioHeaders == With(NoHeaders, Backend("https://x", "d", "u", "p"))

ServedHeaderSets ==
    { NoHeaders,
      ScenarioHeaders,
      With(ScenarioHeaders, "to-use" :> Str(OneToolJson)),
      With(ScenarioHeaders, "to-use" :> Str(OtherToolJson)),
      With(ScenarioHeaders, ("odoo-pass" :> Str("")) @@ ("to-use" :> Str(OneToolJson))),
      With(NoHeaders, "odoo-url" :> Str("https://x")) }

EmptySettings ==
    [NoSettings EXCEPT !.ODOO_URL = Str(""), !.ODOO_DB = Str(""),
                       !.ODOO_USER = Str(""), !.ODOO_PASS = Str("")]
ServedSettings == { NoSettings, EmptySettings }

\* the inputs of the handlers: an order without lines, and the models address
ServedInputs(name) ==
    CASE name = "create_sale_order" ->
            { [tax_id |-> t, confirm |-> FALSE, lines |-> <<>>] : t \in TaxIds }
      [] name \in ToolNames -> ToolInputs(name)
      [] OTHER -> ResourceInputs(name)

ServedFetch(request, env) == requests = <<>> /\ Fetch(request, env)

ServedInvoke(a, name, input) ==
    /\ Len(handlers) < MaxServed
    /\ \/ InvokeTool(a, name, input)
       \/ ReadResource(a, name, input)

ServedNext ==
    \/ /\ requests = <<>>
       /\ \E pathname \in ServedPathnames \cup OtherPathnames,
             headers \in ServedHeaderSets, env \in ServedSettings :
                ServedFetch(HttpRequest(pathname, headers), env)
    \/ \E a \in DOMAIN agents, name \in ToolNames \cup SingleCallResources :
          \E input \in ServedInputs(name) : ServedInvoke(a, name, input)
    \/ \E h \in DOMAIN handlers, resp \in LoginResponses : LoginResponse(h, resp)
    \/ \E h \in DOMAIN handlers : SendExecute(h)
    \/ \E h \in DOMAIN handlers, resp \in ExecResponses : ExecResponse(h, resp)

ServedSpec == Init /\ [][ServedNext]_vars

(***************************************************************************)
(* One request and reads of the four resources of its agent, which share   *)
(* this.odoo                                                               *)
(***************************************************************************)
ReadResponses == ExecResponses \cup {Success(JsFalse)}

ResourceRead(a, name, input) ==
    /\ Len(handlers) < MaxServed
    /\ ReadResource(a, name, input)

ResourceNext ==
    \/ \E request \in TenantRequests : ToolFetch(request, NoSettings)
    \/ \E a \in DOMAIN agents, name \in ResourceNames :
          \E input \in ResourceInputs(name) : ResourceRead(a, name, input)
    \/ \E h \in DOMAIN handlers, resp \in LoginResponses : LoginResponse(h, resp)
    \/ \E h \in DOMAIN handlers : SendExecute(h)
    \/ \E h \in DOMAIN handlers, resp \in ReadResponses : ExecResponse(h, resp)

ResourceSpec == Init /\ [][ResourceNext]_vars

(***************************************************************************)
(* OrderSpec follows one tool invocation on one agent to its end: the       *)
(* product search, or create_sale_order with up to MaxOrderLines lines of   *)
(* two products, every call answered by any of OrderResponses.             *)
(***************************************************************************)
MaxOrderLines == 2

OrderCodes == {"REF-1", "REF-2"}
OrderLines == { OrderLine("REF-1", 1), OrderLine("REF-2", 3) }
OrderLineLists == UNION { [1..n -> OrderLines] : n \in 0..MaxOrderLines }

OrderInputs(name) ==
    IF name = "search_product_by_reference_code"
    THEN { [reference_code |-> code] : code \in OrderCodes }
    ELSE { [tax_id |-> t, confirm |-> cf, lines |-> ls] :
             t \in TaxIds, cf \in BOOLEAN, ls \in OrderLineLists }

OrderResponses == ReadResponses \cup {Success(Num(7))}

OrderInvoke(a, name, input) ==
    /\ handlers = <<>>
    /\ InvokeTool(a, name, input)

OrderNext ==
    \/ \E request \in TenantRequests : ToolFetch(request, NoSettings)
    \/ \E a \in DOMAIN agents, name \in ToolNames :
          \E input \in OrderInputs(name) : OrderInvoke(a, name, input)
    \/ \E h \in DOMAIN handlers, resp \in LoginResponses : LoginResponse(h, resp)
    \/ \E h \in DOMAIN handlers : SendExecute(h)
    \/ \E h \in DOMAIN handlers, resp \in OrderResponses : ExecResponse(h, resp)

OrderSpec == Init /\ [][OrderNext]_vars

(***************************************************************************)
(* RepeatSpec resolves up to MaxResolutions requests one after another in   *)
(* one process: each finds the process-wide settings as the one before it  *)
(* left them, and arrives with an execution context of its own.            *)
(***************************************************************************)
MaxResolutions == 2

ConfiguredSettings ==
    [NoSettings EXCEPT !.ODOO_URL = Str("https://env.example"), !.ODOO_DB = Str("envdb"),
                       !.ODOO_USER = Str("envuser"), !.ODOO_PASS = Str("envpass"),
                       !.ODOO_TIMEOUT = Str("5000"), !.TO_USE = Str(OrderToolJson)]
RepeatSettings == { NoSettings, EmptySettings, ConfiguredSettings }

\* contexts whose props hold the bundle of another tenant, or a foreign field
StaleContext == [props |-> <<TenantB>>]
ForeignContext == [props |-> <<[sessionId |-> Str("s1")]>>]
Contexts == { PlainContext, StaleContext, ForeignContext }

\* the settings the next request finds
SettingsNow ==
    IF requests = <<>> THEN RepeatSettings
    ELSE { requests[Len(requests)].after.env }

RepeatFetch(request, env, ctx) ==
    /\ Len(requests) < MaxResolutions
    /\ FetchIn(request, env, ctx)

RepeatNext ==
    /\ Len(requests) < MaxResolutions
    /\ Len(agents) < MaxAgents
    /\ \E pathname \in {"/mcp", "/"}, headers \in ServedHeaderSets,
          env \in SettingsNow, ctx \in Contexts :
             RepeatFetch(HttpRequest(pathname, headers), env, ctx)

RepeatSpec == Init /\ [][RepeatNext]_vars

(***************************************************************************)
(* The Google Sheets tools (tools/google-sheets.ts): create_spreadsheet_row *)
(* and delete_spreadsheet_row_by_id on one sheet.  A row is the tuple of   *)
(* its cells; the sheet changes when the API answers the request that      *)
(* changes it.  SheetSpec runs up to MaxSheetTools invocations at once.    *)
(***************************************************************************)
MaxSheetTools == 2

SheetName == "Inventory"
HeaderRow == <<"ID", "name">>
InitialSheets ==
    { <<HeaderRow, <<"a1", "shirt">>, <<"B2", "hat">>, <<"c3", "belt">>>>,
      <<HeaderRow, <<"a1", "shirt">>, <<"c3", "belt">>, <<"a1", "scarf">>>>,
      <<>> }
NewRows == { <<"d4", "sock">> }
IdValues == {"a1", " b2 ", "c3", "zz"}
IdColumns == {"A"}

\* String(cell).trim().toLowerCase() and idValue.trim().toLowerCase()
TrimLower(text) ==
    CASE text \in {"B2", " b2 "} -> "b2"
      [] text = "ID" -> "id"
      [] OTHER -> text

\* idColumn.toUpperCase().charCodeAt(0) - 'A'.charCodeAt(0)
IdColumnIndex(idColumn) ==
    CASE idColumn \in {"A", "a"} -> 0
      [] idColumn \in {"B", "b"} -> 1
      [] OTHER -> 25

\* row[idColumnIndex], undefined past the end of the row
Cell(row, index) == IF index + 1 \in DOMAIN row THEN <<row[index + 1]>> ELSE <<>>

\* row[idColumnIndex] && String(row[idColumnIndex]).trim().toLowerCase()
\*    === idValue.trim().toLowerCase()
RowMatches(row, idColumn, idValue) ==
    LET cell == Cell(row, IdColumnIndex(idColumn))
    IN /\ cell # <<>>
       /\ cell[1] # ""
       /\ TrimLower(cell[1]) = TrimLower(idValue)

\* the loop: the 0-based index of the first matching row, -1 when there is none
RowIndexToDelete(allRows, idColumn, idValue) ==
    LET matching == { i \in DOMAIN allRows : RowMatches(allRows[i], idColumn, idValue) }
    IN IF matching = {} THEN -1
       ELSE (CHOOSE i \in matching : \A j \in matching : i <= j) - 1

\* deleteDimension {dimension: ROWS, startIndex, endIndex: startIndex + 1}:
\* the rows below move up; past the last row of data an empty row goes
DeleteDimension(rows, startIndex) ==
    IF startIndex + 1 \notin DOMAIN rows THEN rows
    ELSE [i \in 1..(Len(rows) - 1) |-> IF i <= startIndex THEN rows[i] ELSE rows[i + 1]]

SheetToolNames == {"create_spreadsheet_row", "delete_spreadsheet_row_by_id"}

SheetInputs(name) ==
    IF name = "create_spreadsheet_row"
    THEN { [sheetName |-> SheetName, values |-> row] : row \in NewRows }
    ELSE { [sheetName |-> SheetName, idColumn |-> c, idValue |-> v] :
             c \in IdColumns, v \in IdValues }

NewSheetTool(name, input) ==
    [name |-> name, input |-> input,
     phase |-> IF name = "create_spreadsheet_row" THEN "append" ELSE "metadata",
     rowIndexToDelete |-> -1, status |-> "running", text |-> <<>>, removed |-> <<>>]

SheetReturned(t, text) == [t EXCEPT !.status = "returned", !.text = text]

\* a sheet tool is invoked: it runs up to its first API call
SheetInvoke(name, input) ==
    /\ Len(sheetTools) < MaxSheetTools
    /\ sheetTools' = Append(sheetTools, NewSheetTool(name, input))
    /\ UNCHANGED <<requests, agents, clients, uidWrites, handlers, rpc, sheet>>

AwaitsSheet(t, phase) ==
    sheetTools[t].status = "running" /\ sheetTools[t].phase = phase

\* values.append answers: the row is the last one of the sheet
AppendResponse(t, answer) ==
    /\ AwaitsSheet(t, "append")
    /\ IF ~answer.ok
       THEN /\ sheetTools' = [sheetTools EXCEPT ![t] = SheetReturned(@, <<"Error: ">>)]
            /\ UNCHANGED sheet
       ELSE /\ sheet' = Append(sheet, sheetTools[t].input.values)
            /\ sheetTools' = [sheetTools EXCEPT ![t] =
                   SheetReturned(@, IF answer.status = 200
                                    THEN <<"Row created successfully. Appended to: ">>
                                    ELSE <<"Failed to create row. Status: ", answer.status>>)]
    /\ UNCHANGED <<requests, agents, clients, uidWrites, handlers, rpc>>

\* spreadsheets.get answers: the sheet of that name is there or not
MetadataResponse(t, answer) ==
    /\ AwaitsSheet(t, "metadata")
    /\ sheetTools' = [sheetTools EXCEPT ![t] =
          CASE answer = "error" -> SheetReturned(@, <<"Error: ">>)
            [] answer = "absent" ->
                 SheetReturned(@, <<"Sheet '", @.input.sheetName, "' not found in spreadsheet.">>)
            [] OTHER -> [@ EXCEPT !.phase = "values"]]
    /\ UNCHANGED <<requests, agents, clients, uidWrites, handlers, rpc, sheet>>

\* values.get answers with the rows as they are now; the handler looks for
\* the row and sends the deleteDimension request for its index
ValuesResponse(t, answer) ==
    /\ AwaitsSheet(t, "values")
    /\ LET allRows == sheet
           input == sheetTools[t].input
           index == RowIndexToDelete(allRows, input.idColumn, input.idValue)
       IN sheetTools' = [sheetTools EXCEPT ![t] =
             IF answer = "error" THEN SheetReturned(@, <<"Error: ">>)
             ELSE IF Len(allRows) = 0
             THEN SheetReturned(@, <<"No data found in sheet '", input.sheetName, "'.">>)
             ELSE IF index = -1
             THEN SheetReturned(@, <<"Row with ID '", input.idValue, "' not found in column '",
                                     input.idColumn, "' of sheet '", input.sheetName, "'.">>)
             ELSE [@ EXCEPT !.phase = "batchUpdate", !.rowIndexToDelete = index]]
    /\ UNCHANGED <<requests, agents, clients, uidWrites, handlers, rpc, sheet>>

\* batchUpdate answers: the row now at that index is gone
BatchUpdateResponse(t, answer) ==
    /\ AwaitsSheet(t, "batchUpdate")
    /\ LET index == sheetTools[t].rowIndexToDelete
           idValue == sheetTools[t].input.idValue
           sheetName == sheetTools[t].input.sheetName
       IN IF ~answer.ok
          THEN /\ sheetTools' = [sheetTools EXCEPT ![t] = SheetReturned(@, <<"Error: ">>)]
               /\ UNCHANGED sheet
          ELSE /\ sheet' = DeleteDimension(sheet, index)
               /\ sheetTools' = [sheetTools EXCEPT ![t] =
                      [SheetReturned(@, IF answer.status = 200
                                        THEN <<"Row with ID '", idValue,
                                               "' deleted successfully from sheet '",
                                               sheetName, "'.">>
                                        ELSE <<"Failed to delete row with ID '", idValue,
                                               "'. Status: ", answer.status>>)
                         EXCEPT !.removed = <<Cell(sheet, index)>>]]
    /\ UNCHANGED <<requests, agents, clients, uidWrites, handlers, rpc>>

SheetInit ==
    /\ requests = <<>>
    /\ agents = <<>> /\ clients = <<>> /\ uidWrites = <<>>
    /\ handlers = <<>>
    /\ rpc = RpcIdle
    /\ sheet \in InitialSheets
    /\ sheetTools = <<>>

\* what the API client makes of the answer: a 2xx response is returned, any
\* other is thrown
SheetAnswers ==
    { [ok |-> TRUE, status |-> 200], [ok |-> TRUE, status |-> 204],
      [ok |-> FALSE, status |-> 500] }

SheetNext ==
    \/ \E name \in SheetToolNames : \E input \in SheetInputs(name) : SheetInvoke(name, input)
    \/ \E t \in DOMAIN sheetTools, answer \in SheetAnswers : AppendResponse(t, answer)
    \/ \E t \in DOMAIN sheetTools, answer \in {"found", "absent", "error"} :
          MetadataResponse(t, answer)
    \/ \E t \in DOMAIN sheetTools, answer \in {"rows", "error"} : ValuesResponse(t, answer)
    \/ \E t \in DOMAIN sheetTools, answer \in SheetAnswers : BatchUpdateResponse(t, answer)

SheetSpec == SheetInit /\ [][SheetNext]_vars

(***************************************************************************)
(* jsonRpc applied to every transport response                             *)
(***************************************************************************)
RpcInit ==
    /\ requests = <<>>
    /\ agents = <<>> /\ clients = <<>> /\ uidWrites = <<>>
    /\ handlers = <<>>
    /\ rpc \in { [resp |-> r, out |-> Pending] : r \in Responses }
    /\ sheet = <<>> /\ sheetTools = <<>>

JsonRpcSettles ==
    /\ rpc.out = Pending
    /\ rpc' = [rpc EXCEPT !.out = JsonRpcOutcome(rpc.resp)]
    /\ UNCHANGED <<requests, agents, clients, uidWrites, handlers, sheet, sheetTools>>

JsonRpcCalled(r) ==
    /\ rpc.out # Pending
    /\ rpc' = [resp |-> r, out |-> Pending]
    /\ UNCHANGED <<requests, agents, clients, uidWrites, handlers, sheet, sheetTools>>

RpcNext == JsonRpcSettles \/ \E r \in Responses : JsonRpcCalled(r)

RpcSpec == RpcInit /\ [][RpcNext]_vars

(***************************************************************************)
(* Vocabulary of the properties                                            *)
(***************************************************************************)
\* the executeKw calls made on client c, each named <<handler, index>>
CallIds(c) ==
    UNION { { <<h, k>> : k \in DOMAIN handlers[h].calls } :
              h \in { g \in DOMAIN handlers : handlers[g].client = c } }

AllCallIds == UNION { CallIds(c) : c \in DOMAIN clients }
CallOf(x) == handlers[x[1]].calls[x[2]]

\* handlers start in index order, and a handler makes its calls in order
Before(x, y) == x[1] < y[1] \/ (x[1] = y[1] /\ x[2] < y[2])
Follows(x, y) ==
    /\ handlers[x[1]].client = handlers[y[1]].client
    /\ Before(x, y)
    /\ ~\E z \in CallIds(handlers[x[1]].client) : Before(x, z) /\ Before(z, y)

EnvelopesOf(call, service) == { e \in DOMAIN call.sent : call.sent[e].service = service }
Answered(env) == env.resp # <<>>

\* a response that is a transport error or a remote error payload
FailureResponse(resp) == ~IsOk(resp.status) \/ Truthy(resp.error)

LoginCount(c) ==
    Cardinality({ <<x, e>> \in CallIds(c) \X {1, 2} : e \in EnvelopesOf(CallOf(x), "common") })

\* the values the logins of client c have returned so far
LoginResults(c) ==
    { CallOf(x).sent[1].resp[1].result :
        x \in { y \in CallIds(c) : /\ EnvelopesOf(CallOf(y), "common") = {1}
                                   /\ Answered(CallOf(y).sent[1])
                                   /\ ~FailureResponse(CallOf(y).sent[1].resp[1]) } }

IsIdentity(v) == v.type = "number"

\* the first call made on c has succeeded: its login returned an identity and
\* its execution envelope a result
FirstCallSucceeded(c) ==
    \E x \in CallIds(c) :
        /\ ~\E y \in CallIds(c) : Before(y, x)
        /\ CallOf(x).pc = "done"
        /\ EnvelopesOf(CallOf(x), "common") = {1}
        /\ IsIdentity(CallOf(x).sent[1].resp[1].result)

\* C1: a client used by sequential calls holds no session identity before its
\* first executeKw call; once its first call has succeeded (the login returned
\* an identity and the execution a result) it has sent exactly one login
\* envelope, however many calls followed.
C1_LazyLoginOnce ==
    \A c \in DOMAIN clients :
        /\ CallIds(c) = {} => clients[c].uid = Null /\ uidWrites[c] = 0
        /\ FirstCallSucceeded(c) => LoginCount(c) = 1

C1_Witness ==
    \E c \in DOMAIN clients :
        /\ FirstCallSucceeded(c)
        /\ Cardinality({ x \in CallIds(c) : CallOf(x).pc = "done" }) >= 2

FailedAtLogin(call) ==
    /\ EnvelopesOf(call, "common") = {1}
    /\ Answered(call.sent[1])
    /\ FailureResponse(call.sent[1].resp[1])

C3_ExecCarriesIdentity ==
    \A x \in AllCallIds :
        \A e \in EnvelopesOf(CallOf(x), "object") : IsIdentity(CallOf(x).sent[e].args[2])

\* C4: under any interleaving of executeKw calls on one client, the session
\* identity of the client is written at most once.
C4_UidWrittenOnce == \A c \in DOMAIN clients : uidWrites[c] <= 1

\* C5: once a client has stored a session identity nothing changes it.
C5_IdentityStable ==
    [][\A c \in DOMAIN clients :
          IsIdentity(clients[c].uid) => clients'[c].uid = clients[c].uid]_vars

\* C6: a call that succeeds has sent exactly one execute_kw envelope, as its
\* last envelope (after the login envelope when it sent one), with arguments
\* [db, session identity, password, model, method, args, kwargs] in that order,
\* the identity being a value a login of its client returned; and it returns
\* the result field of the response to that envelope.
C6_ExecutionEnvelope ==
    \A x \in AllCallIds :
        CallOf(x).pc = "done" =>
            LET call == CallOf(x)
                c == handlers[x[1]].client
                n == Len(call.sent)
                env == call.sent[n]
            IN /\ EnvelopesOf(call, "object") = {n}
               /\ env.method = "execute_kw"
               /\ Len(env.args) = 7
               /\ env.args[1] = Str(clients[c].cfg.db)
               /\ env.args[2] \in LoginResults(c)
               /\ n = 2 => EnvelopesOf(call, "common") = {1}
               /\ env.args[3] = Str(clients[c].cfg.password)
               /\ env.args[4] = Str(call.req.model)
               /\ env.args[5] = Str(call.req.method)
               /\ env.args[6] = call.req.args
               /\ env.args[7] = call.req.kwargs
               /\ call.out = Return(env.resp[1].result)

C6_Witness ==
    \E x \in AllCallIds :
        /\ CallOf(x).pc = "done"
        /\ Len(CallOf(x).sent) = 2
        /\ CallOf(x).out = Return(OneRecord)

\* the message the backend supplied in error.data.message, if any
SuppliedMessages(err) ==
    IF err.type = "object" /\ "data" \in DOMAIN err.fields
       /\ err.fields.data.type = "object" /\ "message" \in DOMAIN err.fields.data.fields
    THEN {err.fields.data.fields.message} ELSE {}

\* C7: for every transport response, a non-success status fails with a
\* transport error carrying the status, whatever the body holds; otherwise a
\* body that carries an error (an error member JavaScript takes for true: null
\* is no error) fails with a remote error carrying the message the backend
\* supplied, or the generic message when it supplied none; otherwise the
\* result is returned.
C7_FailurePolicy ==
    rpc.out # Pending =>
        LET resp == rpc.resp
        IN IF ~IsOk(resp.status) THEN rpc.out = Throw(HttpError(resp.status))
           ELSE IF Truthy(resp.error)
           THEN /\ rpc.out.kind = "throw"
                /\ "message" \in DOMAIN rpc.out.error
                /\ IF SuppliedMessages(resp.error) = {}
                   THEN rpc.out.error.message = Str(GenericRpcMessage)
                   ELSE rpc.out.error.message \in SuppliedMessages(resp.error)
           ELSE rpc.out = Return(resp.result)

C7_Witness ==
    /\ rpc.out # Pending
    /\ ~IsOk(rpc.resp.status)
    /\ SuppliedMessages(rpc.resp.error) # {}
    /\ rpc.resp.result = OneRecord

\* C8: one executeKw call sends at most one login envelope and at most one
\* execution envelope, and an envelope that failed is the last one the call
\* has sent.
C8_NoRetry ==
    \A x \in AllCallIds :
        /\ Cardinality(EnvelopesOf(CallOf(x), "common")) <= 1
        /\ Cardinality(EnvelopesOf(CallOf(x), "object")) <= 1
        /\ \A e \in DOMAIN CallOf(x).sent :
              (Answered(CallOf(x).sent[e]) /\ FailureResponse(CallOf(x).sent[e].resp[1]))
                  => /\ e = Len(CallOf(x).sent)
                     /\ CallOf(x).pc = "failed"

C8_Witness ==
    \E x \in AllCallIds :
        /\ Len(CallOf(x).sent) = 2
        /\ Answered(CallOf(x).sent[2])
        /\ FailureResponse(CallOf(x).sent[2].resp[1])

\* C9: every client starts unauthenticated and holds only what its own logins
\* returned; every execution envelope of a client goes to the backend URL and
\* database of the bundle the client was built from and carries an identity
\* that a login of that same client returned.
C9_SessionIsolation ==
    /\ \A c \in DOMAIN clients : clients[c].uid = Null \/ clients[c].uid \in LoginResults(c)
    /\ \A x \in AllCallIds :
          LET c == handlers[x[1]].client
              bundle == agents[handlers[x[1]].agent].props
          IN \A e \in EnvelopesOf(CallOf(x), "object") :
                /\ CallOf(x).sent[e].url = <<bundle.odooUrl, "/jsonrpc">>
                /\ CallOf(x).sent[e].args[1] = Str(bundle.odooDb)
                /\ CallOf(x).sent[e].args[2] \in LoginResults(c)

C9_Witness ==
    \E x \in AllCallIds, y \in AllCallIds :
        /\ agents[handlers[x[1]].agent].props = TenantA
        /\ agents[handlers[y[1]].agent].props = TenantB
        /\ EnvelopesOf(CallOf(x), "object") # {}
        /\ EnvelopesOf(CallOf(y), "object") # {}

HandlersOf(a) == { h \in DOMAIN handlers : handlers[h].agent = a }
ToolHandlersOf(a) == { h \in HandlersOf(a) : handlers[h].name \in ToolNames }

\* the handler has returned and every remote call it made returned a result
HandlerSucceeded(h) ==
    /\ handlers[h].status = "returned"
    /\ \A k \in DOMAIN handlers[h].calls : handlers[h].calls[k].pc = "done"

LoginEnvelopesOf(a) ==
    Cardinality({ x \in AllCallIds :
                    x[1] \in HandlersOf(a) /\ EnvelopesOf(CallOf(x), "common") # {} })

\* C10 as claimed: in one request every tool and resource handler calls through
\* one single client, so any number of successful invocations cause exactly
\* one login round trip.
C10_OneClientPerRequest ==
    \A a \in DOMAIN agents :
        /\ \A h \in HandlersOf(a), g \in HandlersOf(a) :
              handlers[h].client = handlers[g].client
        /\ (HandlersOf(a) # {} /\ \A h \in HandlersOf(a) : HandlerSucceeded(h))
              => LoginEnvelopesOf(a) = 1

\* C10 amended: in one request every handler calls through a client built from
\* that request's bundle, but not through a single one: every tool invocation
\* builds a client of its own, whose first call sends a login envelope, and a
\* resource handler uses the client built last (by init or by the latest tool
\* invocation); so k tool invocations cause at least k login round trips.
C10_ClientPerToolInvocation ==
    \A a \in DOMAIN agents :
        /\ \A h \in HandlersOf(a) :
              LET cfg == clients[handlers[h].client].cfg
                  earlier == { g \in HandlersOf(a) : g < h }
                  tools == { g \in ToolHandlersOf(a) : g < h }
              IN /\ cfg.baseUrl = agents[a].props.odooUrl
                 /\ cfg.db = agents[a].props.odooDb
                 /\ cfg.username = agents[a].props.odooUser
                 /\ cfg.password = agents[a].props.odooPass
                 /\ IF h \in ToolHandlersOf(a)
                    THEN /\ \A g \in DOMAIN handlers : g < h => handlers[g].client # handlers[h].client
                         /\ EnvelopesOf(handlers[h].calls[1], "common") = {1}
                    ELSE /\ tools # {} =>
                              handlers[h].client =
                                  handlers[CHOOSE g \in tools : \A f \in tools : f <= g].client
                         /\ tools = {} =>
                              \A g \in earlier : handlers[g].client = handlers[h].client
        /\ LoginEnvelopesOf(a) >= Cardinality(ToolHandlersOf(a))

C10_Witness ==
    \E a \in DOMAIN agents :
        /\ Cardinality(ToolHandlersOf(a)) = 2
        /\ \A h \in HandlersOf(a) : HandlerSucceeded(h)
        /\ LoginEnvelopesOf(a) = 2

(***************************************************************************)
(* Vocabulary of the resolver and gate properties                          *)
(***************************************************************************)
\* the requests whose resolution did not throw, and the bundle of one
ResolvedRequests == { i \in DOMAIN requests : requests[i].route # "threw" }
BundleOf(r) == GetConfigFromContext(r.props[1])

\* the allow-list a text denotes: its names when it is JSON for an array of
\* strings, none otherwise
MalformedAllowLists == {Str(NoJson), Str(ObjectJson), Str(StringJson), Str(MixedArrayJson)}
AllowListOf(text) ==
    CASE text = Str(OneToolJson) -> <<"search_product_by_reference_code">>
      [] text = Str(OrderToolJson) -> <<"create_sale_order", "other_tool">>
      [] text = Str(OtherToolJson) -> <<"other_tool">>
      [] OTHER -> <<>>

\* a header that was sent, and one that was sent with a value
Present(headers, name) == headers[name] # Null
Given(headers, name) == headers[name] \notin {Null, Str("")}
IsSet(setting) == setting \notin {Undefined, Str("")}

\* the backend fields of a bundle
BackendOf(bundle) ==
    <<bundle.odooConfig.baseUrl, bundle.odooConfig.db,
      bundle.odooConfig.username, bundle.odooConfig.password>>

HeaderBackend(headers) ==
    <<headers["odoo-url"].s, headers["odoo-db"].s,
      headers["odoo-user"].s, headers["odoo-pass"].s>>

SettingOr(setting, literal) == IF IsSet(setting) THEN setting.s ELSE literal
SettingsBackend(env) ==
    <<SettingOr(env.ODOO_URL, DefaultUrl), SettingOr(env.ODOO_DB, DefaultDb),
      SettingOr(env.ODOO_USER, DefaultUser), SettingOr(env.ODOO_PASS, DefaultPass)>>

CandidateNames == ToolNames \cup {"other_tool"}
Admits(enabledOperations, n) == enabledOperations = {} \/ n \in enabledOperations

\* C11: for every bundle an agent is started with and every operation name n,
\* shouldIgnoreTool(n) is false exactly when the allow-list of the bundle is
\* empty or contains n; an empty allow-list admits every name.
C11_GateAdmits ==
    \A a \in DOMAIN agents :
        LET enabledOperations == Range(GetConfigFromContext(agents[a].props).toolsToUse)
        IN /\ \A n \in CandidateNames :
                ~ShouldIgnoreTool(agents[a].props, n) <=> Admits(enabledOperations, n)
           /\ enabledOperations = {} =>
                \A n \in CandidateNames : ~ShouldIgnoreTool(agents[a].props, n)

C11_Witness ==
    \E a \in DOMAIN agents :
        /\ agents[a].props.toolsToUse = <<"create_sale_order", "other_tool">>
        /\ ~ShouldIgnoreTool(agents[a].props, "create_sale_order")
        /\ ShouldIgnoreTool(agents[a].props, "search_product_by_reference_code")

\* C13 as claimed: resolution never throws, and whenever the `to-use` header
\* or the TO_USE setting holds a malformed allow-list the resolved bundle's
\* allow-list is empty.
C13_MalformedMeansOpen ==
    \A i \in DOMAIN requests :
        LET r == requests[i]
        IN /\ r.route # "threw"
           /\ (\/ r.request.headers["to-use"] \in MalformedAllowLists
               \/ r.env.TO_USE \in MalformedAllowLists)
                 => BundleOf(r).toolsToUse = <<>>

\* C13 amended: resolution never throws; a malformed allow-list text parses to
\* the empty allow-list; and the resolved bundle's allow-list is empty when
\* the malformed text is the one the bundle is read from: the `to-use` header
\* when the four mandatory headers are given, the TO_USE setting otherwise.
C13_MalformedReadAsOpen ==
    \A i \in DOMAIN requests :
        LET r == requests[i]
            headers == r.request.headers
            fromHeaders == \A name \in MandatoryHeaders : Given(headers, name)
        IN /\ r.route # "threw"
           /\ \A text \in {headers["to-use"], r.env.TO_USE} \cap MalformedAllowLists :
                 ToolsToUse(text) = Return(<<>>)
           /\ (fromHeaders /\ headers["to-use"] \in MalformedAllowLists)
                 => BundleOf(r).toolsToUse = <<>>
           /\ (~fromHeaders /\ r.env.TO_USE \in MalformedAllowLists)
                 => BundleOf(r).toolsToUse = <<>>

C13_Witness ==
    \E i \in DOMAIN requests, a \in DOMAIN agents :
        /\ requests[i].agent = a
        /\ \A name \in MandatoryHeaders : Given(requests[i].request.headers, name)
        /\ requests[i].request.headers["to-use"] = Str(MixedArrayJson)
        /\ requests[i].env.TO_USE = Str(OrderToolJson)
        /\ BundleOf(requests[i]).toolsToUse = <<>>
        /\ agents[a].tools = ToolNames

\* C14 as claimed: when the four mandatory headers are present the backend
\* fields of the bundle equal their values and the allow-list is the one of the
\* `to-use` header, whatever the settings hold.
C14_HeadersPresent ==
    \A i \in DOMAIN requests :
        LET r == requests[i]
            headers == r.request.headers
        IN (\A name \in MandatoryHeaders : Present(headers, name)) =>
              /\ r.route # "threw"
              /\ BackendOf(BundleOf(r)) = HeaderBackend(headers)
              /\ BundleOf(r).toolsToUse = AllowListOf(headers["to-use"])

\* C14 amended: when the four mandatory headers are present with non-empty
\* values the backend fields of the bundle equal their values and the
\* allow-list is the one of the `to-use` header, whatever the settings hold; a
\* mandatory header sent with an empty value counts as missing.
C14_HeadersGiven ==
    \A i \in DOMAIN requests :
        LET r == requests[i]
            headers == r.request.headers
        IN (\A name \in MandatoryHeaders : Given(headers, name)) =>
              /\ r.route # "threw"
              /\ BackendOf(BundleOf(r)) = HeaderBackend(headers)
              /\ BundleOf(r).toolsToUse = AllowListOf(headers["to-use"])

C14_Witness ==
    \E i \in DOMAIN requests :
        /\ \A name \in MandatoryHeaders : Given(requests[i].request.headers, name)
        /\ requests[i].request.headers["to-use"] = Str(OneToolJson)
        /\ IsSet(requests[i].env.ODOO_URL)
        /\ requests[i].env.TO_USE = Str(OrderToolJson)
        /\ BackendOf(BundleOf(requests[i])) = <<"https://x", "d", "u", "p">>
        /\ BundleOf(requests[i]).toolsToUse = <<"search_product_by_reference_code">>

\* C15: when a mandatory header is missing (absent, or sent with an empty
\* value) the backend fields of the bundle are the settings' values, each
\* replaced by its literal default when unset, and the allow-list is the one
\* of TO_USE; the bundle is the one the same settings give with no header at
\* all; with no header and no TO_USE every tool is registered.
C15_SettingsFallback ==
    \A i \in DOMAIN requests :
        LET r == requests[i]
            headers == r.request.headers
        IN (\E name \in MandatoryHeaders : ~Given(headers, name)) =>
              /\ r.route # "threw"
              /\ BackendOf(BundleOf(r)) = SettingsBackend(r.env)
              /\ BundleOf(r).toolsToUse = AllowListOf(r.env.TO_USE)
              /\ BundleOf(r) = GetConfigFromContext(ContextProps(NoHeaders, r.env).value)
              /\ (headers = NoHeaders /\ r.env.TO_USE = Undefined /\ r.agent # 0)
                    => agents[r.agent].tools = ToolNames

C15_Witness ==
    \E i \in DOMAIN requests :
        LET headers == requests[i].request.headers
        IN /\ ~Present(headers, "odoo-pass")
           /\ \A name \in MandatoryHeaders \ {"odoo-pass"} : Given(headers, name)
           /\ headers["to-use"] = Str(OneToolJson)
           /\ Given(headers, "odoo-timeout")
           /\ requests[i].env.TO_USE = Str(OrderToolJson)
           /\ BackendOf(BundleOf(requests[i])) =
                 <<"https://env.example", "envdb", "envuser", "envpass">>
           /\ BundleOf(requests[i]).toolsToUse = <<"create_sale_order", "other_tool">>

\* the timeout and the optional fields of a bundle, and where they come from
OptionalOf(bundle) ==
    <<bundle.odooConfig.timeout, bundle.algoliaConfig.apiKey, bundle.algoliaConfig.appId,
      bundle.algoliaConfig.indexName, bundle.laburenApiKey>>

OptionalSources(headers, env) ==
    << <<headers["odoo-timeout"], env.ODOO_TIMEOUT, DefaultTimeoutText>>,
       <<headers["algolia-api-key"], env.ALGOLIA_API_KEY, "">>,
       <<headers["algolia-app-id"], env.ALGOLIA_APP_ID, "">>,
       <<headers["algolia-index-name"], env.ALGOLIA_INDEX_NAME, "">>,
       <<headers["laburen-api-key"], env.LABUREN_API_KEY, "">> >>

\* the texts of the five fields under a rule that picks one text per field
OptionalUnder(Rule(_), headers, env) ==
    LET sources == OptionalSources(headers, env)
    IN <<ParseInt(Rule(sources[1])), Rule(sources[2]), Rule(sources[3]),
         Rule(sources[4]), Rule(sources[5])>>

HeaderThenSetting(source) ==
    IF source[1] \notin {Null, Str("")} THEN source[1].s
    ELSE SettingOr(source[2], source[3])
HeaderOnly(source) == IF source[1] \notin {Null, Str("")} THEN source[1].s ELSE source[3]
SettingOnly(source) == SettingOr(source[2], source[3])

\* C16 as claimed: in every bundle the timeout and each optional field is the
\* header's value if the header is present, else the setting's value if set,
\* else the literal default.
C16_FieldByField ==
    \A i \in ResolvedRequests :
        OptionalOf(BundleOf(requests[i])) =
            OptionalUnder(HeaderThenSetting, requests[i].request.headers, requests[i].env)

\* C16 amended: the timeout and the optional fields come from the source the
\* mandatory fields came from, never from the other one: when the four
\* mandatory headers are given each is the header's value if present, else the
\* literal default; otherwise each is the setting's value if set, else the
\* literal default.  The timeout is the integer the text starts with.
C16_FieldsFollowBranch ==
    \A i \in ResolvedRequests :
        LET headers == requests[i].request.headers
        IN OptionalOf(BundleOf(requests[i])) =
              IF \A name \in MandatoryHeaders : Given(headers, name)
              THEN OptionalUnder(HeaderOnly, headers, requests[i].env)
              ELSE OptionalUnder(SettingOnly, headers, requests[i].env)

C16_Witness ==
    \E i \in ResolvedRequests :
        LET r == requests[i]
        IN /\ \A name \in MandatoryHeaders : Given(r.request.headers, name)
           /\ ~Present(r.request.headers, "odoo-timeout")
           /\ r.env.ODOO_TIMEOUT = Str("5000")
           /\ ~Present(r.request.headers, "algolia-app-id")
           /\ IsSet(r.env.ALGOLIA_APP_ID)
           /\ BundleOf(r).odooConfig.timeout = Num(60000)
           /\ BundleOf(r).algoliaConfig.appId = ""
           /\ BundleOf(r).algoliaConfig.apiKey = "from-header"

\* the request an agent serves
RequestOf(a) == requests[CHOOSE i \in DOMAIN requests : requests[i].agent = a]

\* C12: the tools registered on an agent are exactly the candidate tools its
\* request's allow-list admits; the set never changes after init; and every
\* tool handler that runs on the agent is one of them.  With the headers
\* odoo-url=https://x, odoo-db=d, odoo-user=u, odoo-pass=p and
\* to-use=["search_product_by_reference_code"] that tool alone is registered.
C12_RegisteredOnce ==
    /\ [](\A a \in DOMAIN agents :
            /\ \E i \in DOMAIN requests : requests[i].agent = a
            /\ agents[a].tools =
                  { n \in ToolNames : Admits(Range(BundleOf(RequestOf(a)).toolsToUse), n) }
            /\ RequestOf(a).request.headers =
                  With(ScenarioHeaders, "to-use" :> Str(OneToolJson))
                  => agents[a].tools = {"search_product_by_reference_code"}
            /\ \A h \in ToolHandlersOf(a) : handlers[h].name \in agents[a].tools)
    /\ [][\A a \in DOMAIN agents : agents'[a].tools = agents[a].tools]_vars

C12_Witness ==
    \E a \in DOMAIN agents, h \in DOMAIN handlers :
        /\ agents[a].props.toolsToUse = <<"search_product_by_reference_code">>
        /\ agents[a].props.odooUrl = "https://x"
        /\ agents[a].tools = {"search_product_by_reference_code"}
        /\ handlers[h].agent = a
        /\ handlers[h].name = "search_product_by_reference_code"
        /\ handlers[h].status = "returned"

NonEmptyBackend(cfg) ==
    /\ cfg.baseUrl # ""
    /\ cfg.db # ""
    /\ cfg.username # ""
    /\ cfg.password # ""

\* C17: whatever the headers and the settings (unset or empty ones included),
\* every client is built from a bundle whose backend URL, database, username
\* and password are non-empty, and every login envelope carries a non-empty
\* database, username and password to a non-empty URL.
C17_BackendNonEmpty ==
    /\ \A c \in DOMAIN clients : NonEmptyBackend(clients[c].cfg)
    /\ \A x \in AllCallIds :
          \A e \in EnvelopesOf(CallOf(x), "common") :
              /\ CallOf(x).sent[e].url[1] # ""
              /\ \A k \in 1..3 : CallOf(x).sent[e].args[k] # Str("")

C17_Witness ==
    \E i \in DOMAIN requests, x \in AllCallIds :
        /\ requests[i].env = EmptySettings
        /\ requests[i].request.headers["odoo-pass"] = Str("")
        /\ handlers[x[1]].agent = requests[i].agent
        /\ EnvelopesOf(CallOf(x), "common") = {1}
        /\ CallOf(x).sent[1].args = <<Str(DefaultDb), Str(DefaultUser), Str(DefaultPass)>>
        /\ CallOf(x).sent[1].url = <<DefaultUrl, "/jsonrpc">>

\* C18: a request is handed to the protocol host exactly when its path is
\* /sse, /sse/message or /mcp; on any other path the answer is 404 "Not
\* found", no agent is started, no handler runs and no envelope is sent.
C18_OnlyThreePaths ==
    /\ \A i \in DOMAIN requests :
          LET r == requests[i]
          IN IF r.request.pathname \in {"/sse", "/sse/message", "/mcp"}
             THEN r.agent \in DOMAIN agents /\ r.response = <<>>
             ELSE r.agent = 0 /\ r.response = <<[status |-> 404, body |-> "Not found"]>>
    /\ \A a \in DOMAIN agents : \E i \in DOMAIN requests : requests[i].agent = a
    /\ \A h \in DOMAIN handlers : handlers[h].agent \in DOMAIN agents
    /\ (\A i \in DOMAIN requests : requests[i].agent = 0)
          => agents = <<>> /\ clients = <<>> /\ handlers = <<>>

C18_Witness ==
    \E i \in DOMAIN requests :
        /\ requests[i].request.pathname = "/mcp/"
        /\ requests[i].request.headers = ScenarioHeaders
        /\ requests[i].response = <<NotFound>>
        /\ handlers = <<>>

(***************************************************************************)
(* Vocabulary of the resource properties                                   *)
(***************************************************************************)
ResourceHandlers == { h \in DOMAIN handlers : handlers[h].name \in ResourceNames }

\* what the address of a read denotes: its model, its numeric id, and the
\* filter expression its domain segment encodes, if it encodes one
AddressModel(input) == input.pathname[2]
AddressId(input) ==
    IF input.pathname[3] = "5" THEN 5 ELSE 999999
VatDomain == Arr(<<Arr(<<Str("vat"), Str("="), Str("X")>>)>>)
Decodable(input) == input.pathname[3] = EncodedVatDomain

ExpectedCall(name, input) ==
    CASE name = "models" ->
            Request("ir.model", "search_read",
                    Arr(<<Arr(<<>>), Arr(<<Str("model"), Str("name")>>)>>), Obj(<<>>))
      [] name = "model" ->
            Request(AddressModel(input), "fields_get",
                    Arr(<<Arr(<<>>), Arr(<<Str("string"), Str("type"), Str("required")>>)>>),
                    Obj(<<>>))
      [] name = "record" ->
            Request(AddressModel(input), "read",
                    Arr(<<Arr(<<Num(AddressId(input))>>)>>), Obj(<<>>))
      [] OTHER ->
            Request(AddressModel(input), "search_read", Arr(<<VatDomain>>), Obj(<<>>))

\* C19: a read of any of the four address shapes makes exactly one executeKw
\* call: list-models ("ir.model", "search_read", [[], ["model","name"]]);
\* model-schema(m) (m, "fields_get", [[], ["string","type","required"]]);
\* record(m, id) (m, "read", [[id]]); search(m, d) (m, "search_read", [d]) with
\* d the filter expression the URL-encoded JSON segment denotes.  A search
\* whose segment cannot be decoded makes no call.
C19_AddressResolution ==
    \A h \in ResourceHandlers :
        LET name == handlers[h].name
            input == handlers[h].input
        IN IF name = "search" /\ ~Decodable(input)
           THEN handlers[h].calls = <<>>
           ELSE /\ Len(handlers[h].calls) = 1
                /\ handlers[h].calls[1].req = ExpectedCall(name, input)

C19_Witness ==
    \E h \in ResourceHandlers :
        /\ handlers[h].name = "search"
        /\ handlers[h].status = "returned"
        /\ handlers[h].calls[1].pc = "done"
        /\ handlers[h].calls[1].req.model = "res.partner"
        /\ handlers[h].calls[1].req.args = Arr(<<VatDomain>>)

RecordHandlers == { h \in ResourceHandlers : handlers[h].name = "record" }

\* C20: when the backend answers the read of a record address with an empty
\* list (no such id) the handler returns an empty object, not an error; when
\* it answers with records the handler returns the first; the handler fails
\* only when the round trip failed or the result is no list.
C20_AbsentRecordIsEmpty ==
    \A h \in RecordHandlers :
        LET call == handlers[h].calls[1]
        IN /\ (call.pc = "done" /\ call.out.value.type = "array") =>
                 /\ handlers[h].status = "returned"
                 /\ handlers[h].value =
                       IF call.out.value.items = <<>> THEN Obj(<<>>)
                       ELSE call.out.value.items[1]
           /\ handlers[h].status = "threw" =>
                 \/ call.pc = "failed"
                 \/ call.out.value.type # "array"

C20_Witness ==
    \E h \in RecordHandlers :
        /\ handlers[h].input.pathname[3] = "999999"
        /\ handlers[h].calls[1].out = Return(NoRecords)
        /\ handlers[h].status = "returned"
        /\ handlers[h].value = Obj(<<>>)

SearchHandlers == { h \in ResourceHandlers : handlers[h].name = "search" }

\* C21: a search read whose domain segment cannot be URL-decoded, or decodes
\* to text that is no JSON, fails with that error (URIError, SyntaxError) and
\* has started no executeKw call, so neither a login nor a search_read envelope
\* was sent for it; it never goes on with an empty or default domain.
C21_UnreadableDomainFails ==
    \A h \in SearchHandlers :
        ~Decodable(handlers[h].input) =>
            /\ handlers[h].status = "threw"
            /\ handlers[h].value =
                  IF handlers[h].input.pathname[3] = MalformedEncoding
                  THEN URIError ELSE SyntaxError
            /\ handlers[h].calls = <<>>

C21_Witness ==
    \E h, g \in SearchHandlers :
        /\ handlers[h].input.pathname[3] = MalformedEncoding
        /\ handlers[h].value = URIError
        /\ handlers[g].input.pathname[3] = EncodedNoJson
        /\ handlers[g].value = SyntaxError
        /\ handlers[h].calls = <<>> /\ handlers[g].calls = <<>>

(***************************************************************************)
(* Vocabulary of the tool handler properties                               *)
(***************************************************************************)
ToolHandlers == { h \in DOMAIN handlers : handlers[h].name \in ToolNames }
SaleOrders == { h \in ToolHandlers : handlers[h].name = "create_sale_order" }

FailedCalls(h) == { k \in DOMAIN handlers[h].calls : handlers[h].calls[k].pc = "failed" }

\* the words a failure text opens with, by operation
FailurePrefix(name) ==
    IF name = "create_sale_order" THEN "Error al crear orden de venta: "
    ELSE "Error al buscar producto: "

\* the text holds the name, between what is written around it
Affixes == {"", ": ", "Error: ", "Error en ", "Error al "}
ContainsName(text, name) == \E pre \in Affixes, post \in Affixes : text = pre \o name \o post

FailureTextOf(h) == handlers[h].value.content[1].text

\* C22 as claimed: when a remote call of a tool handler fails, the handler
\* returns a failure payload whose text contains the name of the operation and
\* the message of the error.
C22_FailureNamesOperation ==
    \A h \in ToolHandlers : \A k \in FailedCalls(h) :
        /\ handlers[h].status = "returned"
        /\ ContainsName(FailureTextOf(h).prefix, handlers[h].name)
        /\ FailureTextOf(h).message = ErrorText(handlers[h].calls[k].out.error)

\* C22 amended: a tool handler never throws; when a remote call of it fails
\* (transport error, remote error, failed login) that call is its last and the
\* handler returns one text content whose text is a fixed phrase for the
\* operation ("Error al buscar producto: ", "Error al crear orden de venta: "),
\* not its registered name, followed by the message of the error.
C22_FailureIsReported ==
    \A h \in ToolHandlers :
        /\ handlers[h].status # "threw"
        /\ \A k \in FailedCalls(h) :
              /\ k = Len(handlers[h].calls)
              /\ handlers[h].status = "returned"
              /\ handlers[h].value =
                    TextContent([prefix |-> FailurePrefix(handlers[h].name),
                                 message |-> ErrorText(handlers[h].calls[k].out.error)])
              /\ ~ContainsName(FailureTextOf(h).prefix, handlers[h].name)

C22_Witness ==
    \E h \in SaleOrders :
        /\ Len(handlers[h].calls) = 3
        /\ handlers[h].calls[3].out = Throw(RpcError(BackendMessage))
        /\ handlers[h].status = "returned"
        /\ FailureTextOf(h) = [prefix |-> "Error al crear orden de venta: ",
                               message |-> BackendMessage]

\* the line of the order the k-th call of create_sale_order is made for
LineOfCall(k) == (k - 1) \div 2

\* the k-th call of an invocation, by the order the claim gives: the partner
\* search, the order, then a product search and a line for each line
OrderCall(h, k) ==
    LET input == handlers[h].input
        calls == handlers[h].calls
        line == input.lines[LineOfCall(k)]
    IN CASE k = 1 ->
              Request("res.partner", "search_read",
                      Arr(<<Domain("vat", "=", input.tax_id)>>),
                      Obj([fields |-> Fields(<<Str("id")>>), limit |-> Num(1)]))
         [] k = 2 ->
              Request("sale.order", "create",
                      Arr(<<Obj([partner_id |-> Field(FirstOf(calls[1].out.value), "id")])>>),
                      Obj(<<>>))
         [] k > 2 /\ k % 2 = 1 ->
              Request("product.product", "search_read",
                      Arr(<<Domain("default_code", "=", line.reference_code)>>),
                      Obj([fields |-> Fields(<<Str("id")>>), limit |-> Num(1)]))
         [] OTHER ->
              Request("sale.order.line", "create",
                      Arr(<<Obj([order_id |-> calls[2].out.value,
                                 product_id |-> Field(FirstOf(calls[k - 1].out.value), "id"),
                                 product_uom_qty |-> Num(line.qty)])>>),
                      Obj(<<>>))

\* C23: the calls of create_sale_order are, in this order, the partner search,
\* the order create, then for each line in the caller's order its product
\* search and its line create; a call starts only when the one before it has
\* returned; a call that fails is the last one (nothing is deleted or undone,
\* nothing is sent for the later lines); an invocation that reports success
\* has made all of them.
C23_CallsInOrder ==
    \A h \in SaleOrders :
        LET calls == handlers[h].calls
            lines == handlers[h].input.lines
        IN /\ Len(calls) <= 2 + 2 * Len(lines)
           /\ \A k \in DOMAIN calls :
                 /\ k < Len(calls) => calls[k].pc = "done"
                 /\ calls[k].req = OrderCall(h, k)
           /\ (handlers[h].status = "returned" /\ FailedCalls(h) = {}
                  /\ "json" \in DOMAIN FailureTextOf(h)
                  /\ "order_id" \in DOMAIN FailureTextOf(h).json.fields)
                 => Len(calls) = 2 + 2 * Len(lines)

C23_Witness ==
    \E h \in SaleOrders :
        /\ handlers[h].input.lines = <<OrderLine("REF-2", 3), OrderLine("REF-1", 1)>>
        /\ Len(handlers[h].calls) = 6
        /\ handlers[h].calls[4].pc = "done"
        /\ handlers[h].calls[4].req.model = "sale.order.line"
        /\ handlers[h].calls[6].pc = "failed"
        /\ handlers[h].status = "returned"

\* the calls of an invocation that confirm an order
ConfirmationCalls(h) ==
    { k \in DOMAIN handlers[h].calls :
        /\ handlers[h].calls[k].req.model = "sale.order"
        /\ handlers[h].calls[k].req.method \notin {"create", "search_read"} }

ReportsConfirmed(h) ==
    /\ handlers[h].status = "returned"
    /\ "json" \in DOMAIN FailureTextOf(h)
    /\ Field(FailureTextOf(h).json, "confirmed") = TRUE

\* C24: an invocation of create_sale_order with confirm = true that returns
\* the success payload with confirmed: true has sent, after the create of its
\* last line, a call that confirms the order; one with confirm = false sends
\* no such call.
C24_ConfirmedMeansConfirmed ==
    \A h \in SaleOrders :
        /\ (handlers[h].input.confirm /\ ReportsConfirmed(h)) =>
              \E k \in ConfirmationCalls(h) : k > 2 + 2 * Len(handlers[h].input.lines)
        /\ ~handlers[h].input.confirm => ConfirmationCalls(h) = {}

\* the search the k-th call of an invocation made found something
Found(h, k) ==
    LET call == handlers[h].calls[k]
    IN /\ call.pc = "done"
       /\ call.req.method = "search_read"
       /\ IsIterable(call.out.value)
       /\ Truthy(FirstOf(call.out.value))

Creates(h) == { k \in DOMAIN handlers[h].calls : handlers[h].calls[k].req.method = "create" }

\* C27: when the partner search of create_sale_order ends without a partner
\* the invocation makes no create call and returns the failure text
\* ("Partner not found" when the search returned an empty list); every create
\* of a line comes right after the product search of that line, which found a
\* product, and the order is created right after a partner search that found
\* one.
C27_CreatesAreGuarded ==
    \A h \in SaleOrders :
        LET calls == handlers[h].calls
        IN /\ (calls[1].pc \in {"done", "failed"} /\ ~Found(h, 1)) =>
                 /\ Creates(h) = {}
                 /\ Len(calls) = 1
                 /\ handlers[h].status = "returned"
                 /\ FailureTextOf(h).prefix = FailurePrefix("create_sale_order")
                 /\ calls[1].out = Return(NoRecords) =>
                       FailureTextOf(h).message = Str("Partner not found")
           /\ \A k \in Creates(h) :
                 /\ Found(h, k - 1)
                 /\ calls[k - 1].req.model =
                       IF calls[k].req.model = "sale.order" THEN "res.partner"
                       ELSE "product.product"
                 /\ calls[k].req.model = "sale.order.line" =>
                       calls[k - 1].req.args =
                          Arr(<<Domain("default_code", "=",
                                       handlers[h].input.lines[LineOfCall(k)].reference_code)>>)

C27_Witness ==
    \E h \in SaleOrders :
        /\ handlers[h].input.lines # <<>>
        /\ handlers[h].calls[1].out = Return(NoRecords)
        /\ Len(handlers[h].calls) = 1
        /\ handlers[h].status = "returned"
        /\ FailureTextOf(h).message = Str("Partner not found")

(***************************************************************************)
(* Vocabulary of the properties of repeated resolution                     *)
(***************************************************************************)
SameInputs(i, j) ==
    /\ requests[i].request.headers = requests[j].request.headers
    /\ requests[i].env = requests[j].env

\* C25: resolution leaves the execution context it was given (its props) and
\* the process-wide settings as they were, and two resolutions from the same
\* headers and the same settings yield equal bundles, whatever the contexts
\* they were given carried: every field resolution writes is the one the
\* headers and settings determine.
C25_ResolutionIsPure ==
    /\ \A i \in DOMAIN requests :
          /\ requests[i].after.ctx = requests[i].ctx
          /\ requests[i].after.env = requests[i].env
    /\ \A i \in ResolvedRequests :
          LET config == ContextProps(requests[i].request.headers, requests[i].env).value
          IN \A field \in DOMAIN config : requests[i].props[1][field] = config[field]
    /\ \A i \in DOMAIN requests, j \in DOMAIN requests :
          SameInputs(i, j) =>
             /\ i \in ResolvedRequests <=> j \in ResolvedRequests
             /\ i \in ResolvedRequests => BundleOf(requests[i]) = BundleOf(requests[j])

C25_Witness ==
    /\ Len(requests) = 2
    /\ SameInputs(1, 2)
    /\ requests[1].request.headers = ScenarioHeaders
    /\ requests[1].ctx = StaleContext
    /\ requests[2].ctx = PlainContext
    /\ BundleOf(requests[1]) = BundleOf(requests[2])
    /\ BundleOf(requests[2]).odooConfig.baseUrl = "https://x"

ClosedAgents == { a \in DOMAIN agents : agents[a].props.toolsToUse # <<>> }

\* C26: every agent has the four resource handlers (models, model, record,
\* search) registered, whatever its allow-list: a closed allow-list takes
\* tools away, never resources, so a resource is read through the backend
\* also on an agent whose allow-list names one tool or only unknown names.
C26_ResourcesAlwaysRegistered ==
    /\ \A a \in DOMAIN agents :
          /\ agents[a].resources = {"models", "model", "record", "search"}
          /\ agents[a].tools \subseteq ToolNames
    /\ \A a \in ClosedAgents :
          agents[a].tools = ToolNames \cap Range(agents[a].props.toolsToUse)

C26_Witness ==
    \E h \in ResourceHandlers :
        /\ handlers[h].agent \in ClosedAgents
        /\ agents[handlers[h].agent].tools = {}
        /\ handlers[h].status = "returned"
        /\ handlers[h].calls[1].pc = "done"
        /\ handlers[h].calls[1].req.model = "ir.model"

\* the headers with every mandatory header of empty value left out
WithoutEmpty(headers) ==
    [name \in HeaderNames |->
        IF name \in MandatoryHeaders /\ headers[name] = Str("") THEN Null
        ELSE headers[name]]

EmptyMandatory(headers) == { name \in MandatoryHeaders : headers[name] = Str("") }

\* C28: a request in which a mandatory backend header is present with an empty
\* value resolves as the same request without that header: the four backend
\* fields and the allow-list, like every other field of the bundle, come from
\* the settings and their defaults, also when the other three headers and a
\* `to-use` header are given.
C28_EmptyHeaderIsMissing ==
    \A i \in DOMAIN requests :
        LET r == requests[i]
            headers == r.request.headers
        IN EmptyMandatory(headers) # {} =>
              /\ r.route # "threw"
              /\ UsesSettings(headers)
              /\ r.props[1] = ContextProps(WithoutEmpty(headers), r.env).value
              /\ BackendOf(BundleOf(r)) = SettingsBackend(r.env)
              /\ BundleOf(r).toolsToUse = AllowListOf(r.env.TO_USE)
              /\ OptionalOf(BundleOf(r)) = OptionalUnder(SettingOnly, headers, r.env)

C28_Witness ==
    \E i \in DOMAIN requests :
        LET headers == requests[i].request.headers
        IN /\ EmptyMandatory(headers) = {"odoo-pass"}
           /\ \A name \in MandatoryHeaders \ {"odoo-pass"} : Given(headers, name)
           /\ headers["to-use"] = Str(OtherToolJson)
           /\ requests[i].env.ODOO_URL = Undefined
           /\ requests[i].env.TO_USE = Str(OrderToolJson)
           /\ BackendOf(BundleOf(requests[i])) = <<DefaultUrl, DefaultDb, DefaultUser, DefaultPass>>
           /\ BundleOf(requests[i]).toolsToUse = <<"create_sale_order", "other_tool">>

(***************************************************************************)
(* Vocabulary of the sheet properties                                      *)
(***************************************************************************)
Deletions ==
    { t \in DOMAIN sheetTools :
        /\ sheetTools[t].name = "delete_spreadsheet_row_by_id"
        /\ sheetTools[t].removed # <<>> }

\* C29: whenever the delete request of delete_spreadsheet_row_by_id is
\* carried out, the row it removes is a row of the data whose idColumn cell
\* matches idValue at that moment, also when other invocations have appended
\* or deleted rows of the sheet since the tool read it.
C29_RemovedRowMatches ==
    \A t \in Deletions :
        LET removed == sheetTools[t].removed[1]
        IN /\ removed # <<>>
           /\ RowMatches(removed[1], sheetTools[t].input.idColumn, sheetTools[t].input.idValue)

====
